---- MODULE Spec2Model ----
(***************************************************************************)
(* Model of CameraManager (src/Ids_Camera_Manager.py): the acquisition     *)
(* life cycle (Library.Initialize, open_camera, prepare_acquisition,       *)
(* alloc_and_announce_buffers, start_acquisition, stopcamera), the pump    *)
(* thread runtime_frame, the consumers get_image / wait4frame, the device  *)
(* side of the buffer pool (the sensor filling queued buffers), and the    *)
(* configuration of the device: the set_ methods over the nodes of the     *)
(* remote device, save_settings and startcamera_load.  Further sections    *)
(* model several controllers of one process that share the library and    *)
(* the attached devices, and CameraProperties: calibrate, the calibration  *)
(* record of {ID}.json and get_camera_position.                            *)
(***************************************************************************)
EXTENDS Integers, FiniteSets, Sequences, TLC

\* ---------------------------------------------------------------- bounds
NumBuffers == 2      \* value reported by NumBuffersAnnouncedMinRequired()
MaxFrames == 2       \* frames the sensor delivers in one run of the model
MaxThreads == 1      \* runtime_frame threads created in one run of the model
NumConsumers == 2    \* threads calling get_image / wait4frame
NumControllers == 2  \* CameraManager objects of the process
NumDevices == 2      \* devices the device manager enumerates
MaxStarts == 2       \* runtime_frame threads one controller creates in one run
MaxInits == 3        \* Library.Initialize() calls not yet undone by Close()
MaxRestarts == 2     \* nested calibrate calls of one calibrate invocation

Buffers == 1..NumBuffers
Threads == 1..MaxThreads
Consumers == 1..NumConsumers

\* content of a buffer the sensor is writing into
Torn == -1

VARIABLES
    \* CameraManager fields
    Msetting, m_device, m_dataStream, running, image, frame, frame_flag,
    colorMode, acquisition_thread,
    \* the ids_peak library, the device and its data stream
    libOpen, devOpen, devValid, dsValid, devAcq, dsAcq, tlLocked, bufs, hwFrame,
    \* threads
    pump, nThreads, callerPc, cons,
    \* observation of the commands issued and of the pump's waits
    hwStopped, stopIssued, consecutive, lastCall, waitsAfterClear,
    \* the nodes of the remote device, self.fps, the settings file {ID}.json,
    \* and the last start or allocation call with its result
    nodes, fps, settingsFile, call,
    \* the process of several controllers: the library, the CameraManager
    \* objects, the controllers that have each device open, the last call
    Library, camera_managers, claimed, ret,
    \* CameraProperties fields, the calibration and pose keys of {ID}.json,
    \* the calibrate invocation in progress, the last get_camera_position
    cmtx, dist, rvec, tvec, P, squareSize, jsonFile, calib, position,
    \* the capture window of calibrate, the VideoRecorder, and the last
    \* validation trial of calibrate
    capture, recorder, trial

vars == << Msetting, m_device, m_dataStream, running, image, frame, frame_flag,
           colorMode, acquisition_thread,
           libOpen, devOpen, devValid, dsValid, devAcq, dsAcq, tlLocked, bufs, hwFrame,
           pump, nThreads, callerPc, cons,
           hwStopped, stopIssued, consecutive, lastCall, waitsAfterClear,
           nodes, fps, settingsFile, call,
           Library, camera_managers, claimed, ret,
           cmtx, dist, rvec, tvec, P, squareSize, jsonFile, calib, position,
           capture, recorder, trial >>

ctlVars == << Msetting, m_device, m_dataStream, running, acquisition_thread >>
slotVars == << image, frame, frame_flag, colorMode >>
libVars == << libOpen, devOpen, devValid, dsValid, devAcq, dsAcq, tlLocked >>
obsVars == << hwStopped, stopIssued, consecutive, lastCall, waitsAfterClear >>
cfgVars == << nodes, fps, settingsFile, call >>
fleetVars == << Library, camera_managers, claimed, ret >>
calVars == << cmtx, dist, rvec, tvec, P, squareSize, jsonFile, calib, position >>
useVars == << capture, recorder, trial >>
extVars == << fleetVars, calVars, useVars >>
singleVars == << ctlVars, slotVars, libVars, bufs, hwFrame, pump, nThreads, callerPc,
                cons, obsVars, cfgVars >>

\* ---------------------------------------------------------------- values
\* A frame value: a numpy array.  buf # 0: the array is a view of the memory
\* of hardware buffer buf (ipl.BufferToImage(buffer).get_numpy_2D());
\* buf = 0 and seq # 0: an array of its own (the result of cv2.cvtColor).
\* seq is the publication number, data the pixel content published under it,
\* snap the pixel content an own array was filled with.
NoFrame == [buf |-> 0, seq |-> 0, data |-> 0, snap |-> 0]

IsFrame(f) == f.seq # 0

\* the pixel content of a frame value as it is in memory now
Content(f) == IF f.buf # 0 THEN bufs[f.buf].data ELSE f.snap

NoBuffer == [st |-> "none", data |-> 0, img |-> TRUE, size |-> 0]

NoThread == [pc |-> "none", buf |-> 0, exc |-> "none"]

\* a consumer thread: pc is its position, op the method it called last, ret
\* the value its last completed call returned (kept until the next return),
\* outcome how that call ended, tmp the local array of a running conversion;
\* prevW: the call before the current one was a wait4frame that returned a
\* frame; afterFault: the current call began after a pump thread had faulted
NewConsumer == [pc |-> "idle", op |-> "none", tmp |-> NoFrame, ret |-> NoFrame,
                outcome |-> "never", prevW |-> FALSE, afterFault |-> FALSE]

Alive(t) == pump[t].pc \in {"loop", "wait", "check", "publish", "flag", "queue"}

\* ------------------------------------------------- the remote device's nodes
\* limits the device reports through Minimum() / Maximum()
SensorW == 3         \* Width.Maximum() at OffsetX = OffsetX.Minimum()
SensorH == 2         \* Height.Maximum() at OffsetY = OffsetY.Minimum()
WMin == 1            \* Width.Minimum()
HMin == 1            \* Height.Minimum()
FpsMin == 1          \* AcquisitionFrameRate.Minimum()
FpsMax == 2          \* AcquisitionFrameRate.Maximum() with the full sensor as ROI
GainMin == 1         \* Gain.Minimum()
GainMax == 2         \* Gain.Maximum()
ExpMin == 2          \* ExposureTime.Minimum(), microseconds
ExpMax == 1000000    \* ExposureTime.Maximum(), microseconds

\* the Python value None as an argument
None == -9

\* the node values of a device that has not been configured
DefaultNodes ==
    [OffsetX |-> 0, OffsetY |-> 0, Width |-> SensorW, Height |-> SensorH,
     AcquisitionFrameRate |-> FpsMax, Gain |-> GainMin, GainAuto |-> "Off",
     ExposureTime |-> 1000, ExposureAuto |-> "Off"]

\* the nodes that TLParamsLocked = 1 makes read-only
TLNodes == {"OffsetX", "OffsetY", "Width", "Height"}

\* PayloadSize.Value(): one byte per pixel of the region of interest
PayloadSize(n) == n.Width * n.Height

\* Minimum() and Maximum() of a node in the device state n: the sizes and
\* offsets limit each other, and a region smaller than the sensor is read
\* out faster
NodeMin(n, f) ==
    CASE f = "OffsetX" -> 0
      [] f = "OffsetY" -> 0
      [] f = "Width" -> WMin
      [] f = "Height" -> HMin
      [] f = "AcquisitionFrameRate" -> FpsMin
      [] f = "Gain" -> GainMin
      [] f = "ExposureTime" -> ExpMin

NodeMax(n, f) ==
    CASE f = "OffsetX" -> SensorW - n.Width
      [] f = "OffsetY" -> SensorH - n.Height
      [] f = "Width" -> SensorW - n.OffsetX
      [] f = "Height" -> SensorH - n.OffsetY
      [] f = "AcquisitionFrameRate" ->
             IF PayloadSize(n) < SensorW * SensorH THEN FpsMax + 1 ELSE FpsMax
      [] f = "Gain" -> GainMax
      [] f = "ExposureTime" -> ExpMax

\* The run of a method body: n the device state so far, ok FALSE once a test
\* has failed or a statement has raised (the method returns False).
Run(n) == [n |-> n, ok |-> TRUE]

Failed(n) == [n |-> n, ok |-> FALSE]

\* the device keeps AcquisitionFrameRate inside its limits when they change
Clamp(n) ==
    [n EXCEPT !.AcquisitionFrameRate =
                 IF @ > NodeMax(n, "AcquisitionFrameRate")
                 THEN NodeMax(n, "AcquisitionFrameRate") ELSE @]

\* FindNode(f).SetValue(v): the device raises when the node is locked or v
\* is outside [Minimum(), Maximum()]
SetValue(r, lk, f, v) ==
    IF ~r.ok THEN r
    ELSE IF (lk /\ f \in TLNodes) \/ v < NodeMin(r.n, f) \/ v > NodeMax(r.n, f)
         THEN Failed(r.n)
         ELSE Run(Clamp([r.n EXCEPT ![f] = v]))

\* FindNode(f).SetCurrentEntry(e) of GainAuto / ExposureAuto
SetCurrentEntry(r, f, e) ==
    IF ~r.ok THEN r ELSE Run([r.n EXCEPT ![f] = e])

\* set_roi(x, y, width, height) on device state n; lk: TLParamsLocked = 1
Do_set_roi(n, lk, x, y, width, height) ==
    LET x_min == NodeMin(n, "OffsetX")
        y_min == NodeMin(n, "OffsetY")
        w_min == NodeMin(n, "Width")
        h_min == NodeMin(n, "Height")
        r1 == SetValue(SetValue(SetValue(SetValue(Run(n),
                  lk, "OffsetX", x_min), lk, "OffsetY", y_min),
                  lk, "Width", w_min), lk, "Height", h_min)
        x_max == NodeMax(r1.n, "OffsetX")
        y_max == NodeMax(r1.n, "OffsetY")
        w_max == NodeMax(r1.n, "Width")
        h_max == NodeMax(r1.n, "Height")
        w == IF width = None \/ height = None THEN w_max ELSE width
        h == IF width = None \/ height = None THEN h_max ELSE height
    IN  IF ~r1.ok THEN r1
        ELSE IF x < x_min \/ y < y_min \/ x > x_max \/ y > y_max
        THEN Failed(r1.n)
        ELSE IF w < w_min \/ h < h_min \/ (x + w) > w_max \/ (y + h) > h_max
        THEN Failed(r1.n)
        ELSE SetValue(SetValue(SetValue(SetValue(r1,
                 lk, "OffsetX", x), lk, "OffsetY", y), lk, "Width", w), lk, "Height", h)

\* set_offset_x(x) / set_offset_y(y): f is "OffsetX" / "OffsetY"
Do_set_offset(n, lk, f, v) ==
    IF NodeMin(n, f) <= v /\ v <= NodeMax(n, f)
    THEN SetValue(Run(n), lk, f, v)
    ELSE Failed(n)

\* set_width(width) / set_height(height): f is "Width" / "Height"
Do_set_size(n, lk, f, v) ==
    LET val == IF v = None THEN NodeMax(n, f) ELSE v
    IN  IF NodeMin(n, f) <= val /\ val <= NodeMax(n, f)
        THEN SetValue(Run(n), lk, f, val)
        ELSE Failed(n)

\* self.fps after the first statements of set_fps(f) when self.fps was sf
FpsField(n, sf, f) ==
    LET s1 == IF f # None THEN f ELSE sf
    IN  IF s1 = None THEN NodeMax(n, "AcquisitionFrameRate") ELSE s1

\* set_fps(f): 1e6 / ExposureTime.Value() < self.fps switches ExposureAuto
\* to Continuous; the rate is written when it is inside the limits
Do_set_fps(n, sf, f) ==
    LET s == FpsField(n, sf, f)
        r1 == IF 1000000 < s * n.ExposureTime
              THEN SetCurrentEntry(Run(n), "ExposureAuto", "Continuous")
              ELSE Run(n)
        max_fps == NodeMax(r1.n, "AcquisitionFrameRate")
        min_fps == NodeMin(r1.n, "AcquisitionFrameRate")
    IN  IF s > max_fps \/ s < min_fps
        THEN Failed(r1.n)
        ELSE SetValue(r1, FALSE, "AcquisitionFrameRate", s)

\* set_Gain(GainMode, Gain); comparing None with a number raises
Do_set_Gain(n, GainMode, Gain) ==
    LET r1 == SetCurrentEntry(Run(n), "GainAuto", GainMode)
    IN  IF GainMode = "Off"
        THEN IF Gain = None \/ Gain < NodeMin(r1.n, "Gain") \/ Gain > NodeMax(r1.n, "Gain")
             THEN Failed(r1.n)
             ELSE SetValue(r1, FALSE, "Gain", Gain)
        ELSE r1

\* set_Exposure(ExposureMode, ExposureTime): the test
\* ExposureTime > max_exposure and ExposureTime < min_exposure, then
\* ExposureTime.SetValue(1e3 * ExposureTime)
Do_set_Exposure(n, ExposureMode, ExposureTime) ==
    LET r1 == SetCurrentEntry(Run(n), "ExposureAuto", ExposureMode)
        max_exposure == NodeMax(r1.n, "ExposureTime")
        min_exposure == NodeMin(r1.n, "ExposureTime")
    IN  IF ExposureMode = "Off"
        THEN IF ExposureTime = None THEN Failed(r1.n)
             ELSE IF ExposureTime > max_exposure /\ ExposureTime < min_exposure
             THEN Failed(r1.n)
             ELSE SetValue(r1, FALSE, "ExposureTime", 1000 * ExposureTime)
        ELSE r1

\* the file {ID}.json before save_settings has written it
NoFile == [present |-> FALSE, OffsetX |-> 0, OffsetY |-> 0, Width |-> 0, Height |-> 0,
           FPS |-> 0, Gain |-> 0, Exposure |-> 0]

\* the last call of CameraManager, alloc_and_announce_buffers,
\* startcamera_auto or startcamera_load, and whether it returned True
NoCall == [op |-> "none", ok |-> FALSE]

\* -------------------------------------- several controllers: their values
Controllers == 1..NumControllers
Devices == 1..NumDevices
PumpIds == 1..MaxStarts

\* SerialNumber() of the device at index d of Devices()
SerialNumber(d) == 774180 + d

\* the camera_id values a CameraManager is made with: None, the serial
\* number of an attached device, or one that no attached device has
IDs == {None} \cup {SerialNumber(d) : d \in 1..(NumDevices + 1)}

\* the object __init__ builds: no handle, no thread.  m_device is 0 for
\* None and the index of the device otherwise, acquiring the state of the
\* data stream, started the number of threads created, of which
\* self.acquisition_thread is the last, alive the threads still running
NewManager(id) ==
    [ID |-> id, m_device |-> 0, m_dataStream |-> FALSE, acquiring |-> FALSE,
     running |-> FALSE, started |-> 0, alive |-> {}]

\* no method of a controller has been called
NoRet == [c |-> 0, op |-> "none", ok |-> FALSE]

\* the other controllers are not used
FleetIdle ==
    /\ Library = [counted |-> TRUE, refs |-> 0]
    /\ camera_managers = [c \in Controllers |-> NewManager(None)]
    /\ claimed = [d \in Devices |-> {}]
    /\ ret = NoRet

\* ------------------------------------------ CameraProperties: its values
\* np.mean of an empty list, and what is computed from it
NaN == -1

\* {ID}.json without the keys of the calibration and of the pose
NoJson ==
    [exists |-> FALSE, CameraMatrix |-> None, DistortionCoefficients |-> None,
     RotationVector |-> None, TranslationVector |-> None, ProjectionMatrix |-> None]

\* no calibrate invocation: pc is where the invocation stands, depth the
\* number of nested calibrate calls, n the valid images of the last attempt,
\* draws the np.random.choice calls of its resampling loop, solves its
\* cv2.calibrateCamera calls, outcome how the last attempt ended, saves the
\* save_calibration calls of the invocation
NoCalib ==
    [pc |-> "idle", depth |-> 0, n |-> 0, draws |-> 0, solves |-> 0,
     outcome |-> "none", saves |-> 0]

\* no get_camera_position call: ret is what the call returned ("raised" for
\* an exception), detection whether findChessboardCorners was run
NoPosition == [ret |-> "none", detection |-> FALSE]

\* no capture window: pc is where the loop of calibrate stands, frames the
\* publication numbers of the images appended to the list frames, since
\* the publication number self.camera.image had when the window opened
NoCapture == [pc |-> "idle", frames |-> << >>, since |-> 0]

\* VideoRecorder.__init__: video is whether self.video is a writer, thread
\* where the thread of record stands ("none": Thread_video_record is None),
\* main where the thread calling create / start / stop stands, w4f where
\* each of the two stands inside wait4frame, elapsed whether
\* time.time() - start_time has reached the duration, written the frames
\* given to the video writer, released whether video.release() was called,
\* live whether the camera was running when start was called
NoRecorder ==
    [video |-> FALSE, stop_record |-> FALSE, duration |-> None,
     thread |-> "none", main |-> "idle",
     w4f |-> [main |-> "none", thread |-> "none"],
     elapsed |-> FALSE, written |-> 0, released |-> FALSE, live |-> FALSE]

\* no validation trial: patternSize is self.patternSize, selected and
\* remaining the two index lists of the trial, raised whether an index was
\* outside the sample
NoTrial == [patternSize |-> << 0, 0 >>, selected |-> {}, remaining |-> {}, raised |-> FALSE]

\* calibrate and the VideoRecorder are not used
UseIdle ==
    /\ capture = NoCapture
    /\ recorder = NoRecorder
    /\ trial = NoTrial

\* CameraProperties is not used
CalibrationIdle ==
    /\ cmtx = None
    /\ dist = None
    /\ rvec = None
    /\ tvec = None
    /\ P = None
    /\ squareSize = None
    /\ jsonFile = NoJson
    /\ calib = NoCalib
    /\ position = NoPosition

\* the fields __init__ sets, and the library and the device before any call
ControllerInit ==
    /\ Msetting = FALSE
    /\ m_device = FALSE
    /\ m_dataStream = FALSE
    /\ running = FALSE
    /\ image = NoFrame
    /\ frame = NoFrame
    /\ frame_flag = FALSE
    /\ colorMode = "BGR"
    /\ acquisition_thread = 0
    /\ libOpen = FALSE
    /\ devOpen = FALSE
    /\ devValid = FALSE
    /\ dsValid = FALSE
    /\ devAcq = FALSE
    /\ dsAcq = FALSE
    /\ tlLocked = 0
    /\ bufs = [b \in Buffers |-> NoBuffer]
    /\ hwFrame = 0
    /\ pump = [t \in Threads |-> NoThread]
    /\ nThreads = 0
    /\ callerPc = "idle"
    /\ cons = [c \in Consumers |-> NewConsumer]
    /\ hwStopped = FALSE
    /\ stopIssued = [hw |-> 0, close |-> 0]
    /\ consecutive = FALSE
    /\ lastCall = "none"
    /\ waitsAfterClear = 0
    /\ nodes = DefaultNodes
    /\ fps = None
    /\ settingsFile = NoFile
    /\ call = NoCall

\* one controller alone: no other CameraManager is used, and neither
\* calibrate nor get_camera_position is called
Init == ControllerInit /\ FleetIdle /\ CalibrationIdle /\ UseIdle

\* ------------------------------------------------- the caller's operations
\* peak.Library.Initialize(), the first statement of startcamera_auto
LibraryInitialize ==
    /\ callerPc = "idle"
    /\ ~libOpen
    /\ libOpen' = TRUE
    /\ lastCall' = "other"
    /\ UNCHANGED << ctlVars, slotVars, devOpen, devValid, dsValid, devAcq, dsAcq,
                    tlLocked, bufs, hwFrame, pump, nThreads, callerPc, cons,
                    hwStopped, stopIssued, consecutive, waitsAfterClear >>
    /\ UNCHANGED cfgVars
    /\ UNCHANGED extVars

\* open_camera with one device attached: the device is opened when it is
\* openable, with a new node map (TLParamsLocked = 0); otherwise (library closed, device already claimed) the call
\* fails and changes nothing
open_camera ==
    /\ callerPc = "idle"
    /\ IF libOpen /\ ~devOpen
       THEN /\ m_device' = TRUE
            /\ devOpen' = TRUE
            /\ devValid' = TRUE
            /\ tlLocked' = 0
       ELSE UNCHANGED << m_device, devOpen, devValid, tlLocked >>
    /\ lastCall' = "other"
    /\ UNCHANGED << Msetting, m_dataStream, running, acquisition_thread, slotVars,
                    libOpen, dsValid, devAcq, dsAcq, bufs, hwFrame,
                    pump, nThreads, callerPc, cons,
                    hwStopped, stopIssued, consecutive, waitsAfterClear >>
    /\ UNCHANGED cfgVars
    /\ UNCHANGED extVars

\* prepare_acquisition: opens the first data stream of the device
prepare_acquisition ==
    /\ callerPc = "idle"
    /\ m_device
    /\ IF libOpen /\ devValid
       THEN /\ m_dataStream' = TRUE
            /\ dsValid' = TRUE
       ELSE UNCHANGED << m_dataStream, dsValid >>
    /\ lastCall' = "other"
    /\ UNCHANGED << Msetting, m_device, running, acquisition_thread, slotVars,
                    libOpen, devOpen, devValid, devAcq, dsAcq, tlLocked, bufs, hwFrame,
                    pump, nThreads, callerPc, cons,
                    hwStopped, stopIssued, consecutive, waitsAfterClear >>
    /\ UNCHANGED cfgVars
    /\ UNCHANGED extVars

\* an allocation that revokes nothing: the buffers already announced stay,
\* and only the missing ones are allocated
alloc_and_announce_buffers_KeepsAnnounced(rej) ==
    /\ callerPc = "idle"
    /\ m_dataStream
    /\ \A t \in Threads : ~Alive(t)
    /\ IF libOpen /\ dsValid
       THEN bufs' = [b \in Buffers |->
                       IF bufs[b].st # "none" THEN bufs[b]
                       ELSE IF rej = 0 \/ b < rej
                       THEN [st |-> "queued", data |-> 0, img |-> TRUE,
                             size |-> PayloadSize(nodes)]
                       ELSE NoBuffer]
       ELSE UNCHANGED bufs
    /\ call' = [op |-> "alloc_and_announce_buffers",
                ok |-> (libOpen /\ dsValid /\ rej = 0)]
    /\ lastCall' = "other"
    /\ UNCHANGED << ctlVars, slotVars, libVars, hwFrame, pump, nThreads, callerPc, cons,
                    hwStopped, stopIssued, consecutive, waitsAfterClear,
                    nodes, fps, settingsFile >>
    /\ UNCHANGED extVars

\* alloc_and_announce_buffers: Flush(DiscardAll), revoke every announced
\* buffer, then allocate, announce and queue the minimum number required,
\* each of PayloadSize.Value() bytes.  rej = 0: every announcement is
\* accepted; rej = k: the transport layer rejects the k-th one, and the call
\* returns False with the buffers announced before it.
\* Called, as in startcamera_auto, while no pump thread is running.
alloc_and_announce_buffers(rej) ==
    /\ callerPc = "idle"
    /\ m_dataStream
    /\ \A t \in Threads : ~Alive(t)
    /\ IF libOpen /\ dsValid
       THEN bufs' = [b \in Buffers |->
                       IF rej = 0 \/ b < rej
                       THEN [st |-> "queued", data |-> 0, img |-> TRUE,
                             size |-> PayloadSize(nodes)]
                       ELSE NoBuffer]
       ELSE UNCHANGED bufs
    /\ call' = [op |-> "alloc_and_announce_buffers",
                ok |-> (libOpen /\ dsValid /\ rej = 0)]
    /\ lastCall' = "other"
    /\ UNCHANGED << ctlVars, slotVars, libVars, hwFrame, pump, nThreads, callerPc, cons,
                    hwStopped, stopIssued, consecutive, waitsAfterClear,
                    nodes, fps, settingsFile >>
    /\ UNCHANGED extVars

\* start_acquisition when the hardware accepts (ok) or rejects (~ok) the
\* AcquisitionStart command; the exception of a rejected command is caught
\* and the call returns False after the statements before it have run
start_acquisition(ok) ==
    /\ callerPc = "idle"
    /\ m_dataStream
    /\ libOpen /\ dsValid
    /\ \A t \in Threads : ~Alive(t)
    /\ nThreads < MaxThreads
    /\ dsAcq' = TRUE
    /\ tlLocked' = IF Msetting THEN 0 ELSE 1
    /\ IF ok
       THEN /\ devAcq' = TRUE
            /\ hwStopped' = FALSE
            /\ running' = TRUE
            /\ nThreads' = nThreads + 1
            /\ acquisition_thread' = nThreads + 1
            /\ pump' = [pump EXCEPT ![nThreads + 1] =
                          [pc |-> "loop", buf |-> 0, exc |-> "none"]]
       ELSE UNCHANGED << devAcq, hwStopped, running, nThreads, acquisition_thread, pump >>
    /\ lastCall' = IF ok THEN "start_acquisition" ELSE "other"
    /\ UNCHANGED << Msetting, m_device, m_dataStream, slotVars,
                    libOpen, devOpen, devValid, dsValid, bufs, hwFrame, callerPc, cons,
                    stopIssued, consecutive, waitsAfterClear >>
    /\ UNCHANGED cfgVars
    /\ UNCHANGED extVars

\* stopcamera, first statement: self.running = False
Stop_Clear ==
    /\ callerPc = "idle"
    /\ running' = FALSE
    /\ callerPc' = "join"
    /\ waitsAfterClear' = 0
    /\ UNCHANGED << Msetting, m_device, m_dataStream, acquisition_thread, slotVars,
                    libVars, bufs, hwFrame, pump, nThreads, cons,
                    hwStopped, stopIssued, consecutive, lastCall >>
    /\ UNCHANGED cfgVars
    /\ UNCHANGED extVars

\* stopcamera that goes on to the stop commands without joining the thread
Stop_Join_NoWait ==
    /\ callerPc = "join"
    /\ callerPc' = "halt"
    /\ UNCHANGED << ctlVars, slotVars, libVars, bufs, hwFrame, pump, nThreads, cons,
                    obsVars >>
    /\ UNCHANGED cfgVars
    /\ UNCHANGED extVars

\* stopcamera: if the thread exists and is alive, join it
Stop_Join ==
    /\ callerPc = "join"
    /\ acquisition_thread # 0 => ~Alive(acquisition_thread)
    /\ callerPc' = "halt"
    /\ UNCHANGED << ctlVars, slotVars, libVars, bufs, hwFrame, pump, nThreads, cons,
                    obsVars >>
    /\ UNCHANGED cfgVars
    /\ UNCHANGED extVars

\* stopcamera: AcquisitionStop.Execute() when a node map is held,
\* StopAcquisition when a data stream is held, sleep, Library.Close()
Stop_Halt ==
    /\ callerPc = "halt"
    /\ devAcq' = IF m_device THEN FALSE ELSE devAcq
    /\ hwStopped' = IF m_device THEN TRUE ELSE hwStopped
    /\ dsAcq' = FALSE
    /\ libOpen' = FALSE
    /\ devOpen' = FALSE
    /\ devValid' = FALSE
    /\ dsValid' = FALSE
    /\ stopIssued' = [hw |-> (IF m_device THEN 1 ELSE 0) + (IF m_dataStream THEN 1 ELSE 0),
                      close |-> 1]
    /\ consecutive' = (lastCall = "stopcamera")
    /\ lastCall' = "stopcamera"
    /\ callerPc' = "idle"
    /\ UNCHANGED << ctlVars, slotVars, tlLocked, bufs, hwFrame, pump, nThreads, cons,
                    waitsAfterClear >>
    /\ UNCHANGED cfgVars
    /\ UNCHANGED extVars

stopcamera == Stop_Clear \/ Stop_Join \/ Stop_Halt

\* ------------------------------------------------ configuration operations
\* arguments the methods are called with
XArgs == 0..SensorW
YArgs == 0..SensorH
WArgs == {None} \cup (0..SensorW)
HArgs == {None} \cup (0..SensorH)
FArgs == {None} \cup (FpsMin..(FpsMax + 2))
GArgs == (GainMin - 1)..(GainMax + 1)
TArgs == {1, 600, 2000, 2000000}
Modes == {"Off", "Continuous"}

\* the node map handle of the controller can be used
NodeMapUsable == m_device /\ libOpen /\ devValid

Locked == tlLocked = 1

\* the acquisition has been started and not stopped
Streaming == running /\ devAcq /\ dsAcq

Roi(n) == << n.OffsetX, n.OffsetY, n.Width, n.Height >>

\* the requested region lies inside the device's limits
RoiInRange(x, y, width, height) ==
    /\ 0 <= x /\ 0 <= y /\ width # None /\ height # None
    /\ WMin <= width /\ HMin <= height
    /\ x + width <= SensorW /\ y + height <= SensorH

\* the result of a configuration method on the current state: a method
\* called without a usable node map raises at its first FindNode
Ret_set_roi(x, y, width, height) ==
    IF NodeMapUsable THEN Do_set_roi(nodes, Locked, x, y, width, height) ELSE Failed(nodes)

Ret_set_offset(f, v) ==
    IF NodeMapUsable THEN Do_set_offset(nodes, Locked, f, v) ELSE Failed(nodes)

Ret_set_size(f, v) ==
    IF NodeMapUsable THEN Do_set_size(nodes, Locked, f, v) ELSE Failed(nodes)

Ret_set_fps(f) ==
    IF NodeMapUsable THEN Do_set_fps(nodes, fps, f) ELSE Failed(nodes)

Ret_set_Gain(GainMode, Gain) ==
    IF NodeMapUsable THEN Do_set_Gain(nodes, GainMode, Gain) ELSE Failed(nodes)

Ret_set_Exposure(ExposureMode, ExposureTime) ==
    IF NodeMapUsable THEN Do_set_Exposure(nodes, ExposureMode, ExposureTime)
    ELSE Failed(nodes)

\* what a configuration method leaves alone
ConfigFrame ==
    /\ UNCHANGED << ctlVars, slotVars, libVars, bufs, hwFrame, pump, nThreads, callerPc,
                    cons, obsVars, settingsFile, call >>
    /\ UNCHANGED extVars

set_roi(x, y, width, height) ==
    /\ callerPc = "idle"
    /\ nodes' = Ret_set_roi(x, y, width, height).n
    /\ UNCHANGED fps
    /\ ConfigFrame

set_offset_x(x) ==
    /\ callerPc = "idle"
    /\ nodes' = Ret_set_offset("OffsetX", x).n
    /\ UNCHANGED fps
    /\ ConfigFrame

set_offset_y(y) ==
    /\ callerPc = "idle"
    /\ nodes' = Ret_set_offset("OffsetY", y).n
    /\ UNCHANGED fps
    /\ ConfigFrame

set_width(width) ==
    /\ callerPc = "idle"
    /\ nodes' = Ret_set_size("Width", width).n
    /\ UNCHANGED fps
    /\ ConfigFrame

set_height(height) ==
    /\ callerPc = "idle"
    /\ nodes' = Ret_set_size("Height", height).n
    /\ UNCHANGED fps
    /\ ConfigFrame

\* set_fps(f): self.fps = f is assigned before the try block
set_fps(f) ==
    /\ callerPc = "idle"
    /\ nodes' = Ret_set_fps(f).n
    /\ fps' = IF NodeMapUsable THEN FpsField(nodes, fps, f)
              ELSE IF f # None THEN f ELSE fps
    /\ ConfigFrame

set_Gain(GainMode, Gain) ==
    /\ callerPc = "idle"
    /\ nodes' = Ret_set_Gain(GainMode, Gain).n
    /\ UNCHANGED fps
    /\ ConfigFrame

set_Exposure(ExposureMode, ExposureTime) ==
    /\ callerPc = "idle"
    /\ nodes' = Ret_set_Exposure(ExposureMode, ExposureTime).n
    /\ UNCHANGED fps
    /\ ConfigFrame

\* the settings save_settings writes: Exposure is ExposureTime.Value() / 1e3
Settings(n) ==
    [present |-> TRUE, OffsetX |-> n.OffsetX, OffsetY |-> n.OffsetY,
     Width |-> n.Width, Height |-> n.Height, FPS |-> n.AcquisitionFrameRate,
     Gain |-> n.Gain, Exposure |-> n.ExposureTime \div 1000]

\* save_settings: reads the nodes (an unusable node map raises out of the
\* method) and writes {ID}.json
save_settings ==
    /\ callerPc = "idle"
    /\ NodeMapUsable
    /\ settingsFile' = Settings(nodes)
    /\ UNCHANGED << ctlVars, slotVars, libVars, bufs, hwFrame, pump, nThreads, callerPc,
                    cons, obsVars, nodes, fps, call >>
    /\ UNCHANGED extVars

\* set_roi(), set_fps(), set_Exposure(), set_Gain() as startcamera_auto calls
\* them on the node map open_camera has just opened (TLParamsLocked = 0);
\* ok is FALSE when one of them returns False (sys.exit)
AutoConfig ==
    LET r1 == Do_set_roi(nodes, FALSE, 0, 0, None, None)
        r2 == Do_set_fps(r1.n, fps, None)
        r3 == Do_set_Exposure(r2.n, "Continuous", None)
        r4 == Do_set_Gain(r3.n, "Continuous", None)
    IN  IF ~r1.ok THEN [n |-> r1.n, fps |-> fps, ok |-> FALSE]
        ELSE IF ~r2.ok THEN [n |-> r2.n, fps |-> FpsField(r1.n, fps, None), ok |-> FALSE]
        ELSE IF ~r3.ok THEN [n |-> r3.n, fps |-> FpsField(r1.n, fps, None), ok |-> FALSE]
        ELSE [n |-> r4.n, fps |-> FpsField(r1.n, fps, None), ok |-> r4.ok]

\* open_camera of startcamera_auto opens the device
AutoOpens == ~devOpen /\ nThreads < MaxThreads

\* startcamera_auto as one call, with self.Msetting = ms, up to the nodes:
\* Library.Initialize(); open_camera (return False when the device cannot be
\* opened); prepare_acquisition; the four set_ calls (sys.exit when one
\* returns False); alloc_and_announce_buffers; start_acquisition accepted by
\* the hardware.  pc is where the caller goes on after a return of True.
StartAuto(ms, pc) ==
    /\ callerPc = "idle"
    /\ libOpen' = TRUE
    /\ IF AutoOpens
       THEN /\ m_device' = TRUE
            /\ m_dataStream' = TRUE
            /\ devOpen' = TRUE
            /\ devValid' = TRUE
            /\ dsValid' = TRUE
            /\ IF AutoConfig.ok
               THEN /\ bufs' = [b \in Buffers |->
                                  [st |-> "queued", data |-> 0, img |-> TRUE,
                                   size |-> PayloadSize(AutoConfig.n)]]
                    /\ dsAcq' = TRUE
                    /\ tlLocked' = IF ms THEN 0 ELSE 1
                    /\ devAcq' = TRUE
                    /\ hwStopped' = FALSE
                    /\ running' = TRUE
                    /\ nThreads' = nThreads + 1
                    /\ acquisition_thread' = nThreads + 1
                    /\ pump' = [pump EXCEPT ![nThreads + 1] =
                                  [pc |-> "loop", buf |-> 0, exc |-> "none"]]
                    /\ callerPc' = pc
               ELSE /\ tlLocked' = 0
                    /\ callerPc' = "exited"
                    /\ UNCHANGED << bufs, dsAcq, devAcq, hwStopped, running, nThreads,
                                    acquisition_thread, pump >>
       ELSE /\ devOpen
            /\ UNCHANGED << m_device, m_dataStream, devOpen, devValid, dsValid, bufs,
                            dsAcq, tlLocked, devAcq, hwStopped, running, nThreads,
                            acquisition_thread, pump, callerPc >>
    /\ nodes' = IF AutoOpens THEN AutoConfig.n ELSE nodes
    /\ fps' = IF AutoOpens THEN AutoConfig.fps ELSE fps
    /\ lastCall' = "other"
    /\ UNCHANGED << slotVars, hwFrame, cons, stopIssued, consecutive, waitsAfterClear,
                    settingsFile >>
    /\ UNCHANGED extVars

startcamera_auto ==
    /\ StartAuto(Msetting, "idle")
    /\ call' = [op |-> "startcamera_auto", ok |-> AutoOpens /\ AutoConfig.ok]
    /\ UNCHANGED Msetting

\* the set_ calls of startcamera_load made out of order: the offsets before
\* the sizes
LoadSettings_OffsetsFirst(n, lk, sf, s) ==
    LET n1 == Do_set_offset(n, lk, "OffsetX", s.OffsetX).n
        n2 == Do_set_offset(n1, lk, "OffsetY", s.OffsetY).n
        n3 == Do_set_size(n2, lk, "Width", s.Width).n
        n4 == Do_set_size(n3, lk, "Height", s.Height).n
        n5 == Do_set_fps(n4, sf, s.FPS).n
        n6 == Do_set_Gain(n5, "Off", s.Gain).n
    IN  [n |-> Do_set_Exposure(n6, "Off", s.Exposure).n, fps |-> FpsField(n4, sf, s.FPS)]

\* the seven set_ calls of startcamera_load on the settings s read from the
\* file, in the order of the code, their results ignored
LoadSettings(n, lk, sf, s) ==
    LET n1 == Do_set_size(n, lk, "Width", s.Width).n
        n2 == Do_set_size(n1, lk, "Height", s.Height).n
        n3 == Do_set_offset(n2, lk, "OffsetX", s.OffsetX).n
        n4 == Do_set_offset(n3, lk, "OffsetY", s.OffsetY).n
        n5 == Do_set_fps(n4, sf, s.FPS).n
        n6 == Do_set_Gain(n5, "Off", s.Gain).n
    IN  [n |-> Do_set_Exposure(n6, "Off", s.Exposure).n, fps |-> FpsField(n4, sf, s.FPS)]

\* startcamera_load(), first part: self.Msetting = True; startcamera_auto
\* (return False when it does)
Load_Start ==
    /\ Msetting' = TRUE
    /\ StartAuto(TRUE, "load")
    /\ call' = [op |-> "startcamera_load", ok |-> FALSE]

\* startcamera_load(), second part, while the acquisition runs: return
\* False when {ID}.json does not exist; otherwise the settings are applied
\* and the call returns True
Load_Apply ==
    /\ callerPc = "load"
    /\ callerPc' = "idle"
    /\ IF settingsFile.present
       THEN /\ nodes' = LoadSettings(nodes, Locked, fps, settingsFile).n
            /\ fps' = LoadSettings(nodes, Locked, fps, settingsFile).fps
       ELSE UNCHANGED << nodes, fps >>
    /\ call' = [op |-> "startcamera_load", ok |-> settingsFile.present]
    /\ UNCHANGED << ctlVars, slotVars, libVars, bufs, hwFrame, pump, nThreads, cons,
                    obsVars, settingsFile >>
    /\ UNCHANGED extVars

startcamera_load == Load_Start \/ Load_Apply

\* CameraManager(camera_id): a new controller object takes the place of one
\* that is stopped; the threads of the old one are finished and forgotten
CameraManager ==
    /\ callerPc = "idle"
    /\ ~devOpen
    /\ \A t \in Threads : ~Alive(t)
    /\ Msetting' = FALSE
    /\ m_device' = FALSE
    /\ m_dataStream' = FALSE
    /\ image' = NoFrame
    /\ acquisition_thread' = 0
    /\ running' = FALSE
    /\ frame' = NoFrame
    /\ frame_flag' = FALSE
    /\ fps' = None
    /\ colorMode' = "BGR"
    /\ pump' = [t \in Threads |-> NoThread]
    /\ nThreads' = 0
    /\ call' = [op |-> "CameraManager", ok |-> TRUE]
    /\ UNCHANGED << libVars, bufs, hwFrame, callerPc, cons, obsVars, nodes, settingsFile >>
    /\ UNCHANGED extVars

\* ------------------------------------------------------------ the device
\* the sensor starts writing a frame into a queued buffer
HwBeginFill(b) ==
    /\ devAcq /\ dsAcq
    /\ hwFrame < MaxFrames
    /\ bufs[b].st = "queued"
    /\ \A o \in Buffers : bufs[o].st # "filling"
    /\ bufs' = [bufs EXCEPT ![b] = [@ EXCEPT !.st = "filling", !.data = Torn, !.img = TRUE]]
    /\ UNCHANGED << ctlVars, slotVars, libVars, hwFrame, pump, nThreads, callerPc, cons,
                    obsVars >>
    /\ UNCHANGED cfgVars
    /\ UNCHANGED extVars

\* the write completes: the buffer is finished, with or without an image
HwEndFill(b, ok) ==
    /\ bufs[b].st = "filling"
    /\ bufs' = [bufs EXCEPT ![b] = [@ EXCEPT !.st = "finished", !.data = hwFrame + 1,
                                                  !.img = ok]]
    /\ hwFrame' = hwFrame + 1
    /\ UNCHANGED << ctlVars, slotVars, libVars, pump, nThreads, callerPc, cons, obsVars >>
    /\ UNCHANGED cfgVars
    /\ UNCHANGED extVars

\* ------------------------------------------- the pump thread runtime_frame
\* the finished buffer WaitForFinishedBuffer delivers: the oldest one
OldestFinished ==
    CHOOSE b \in Buffers :
        /\ bufs[b].st = "finished"
        /\ \A o \in Buffers : bufs[o].st = "finished" => bufs[b].data <= bufs[o].data

\* a loop that never tests the running flag
PumpLoop_IgnoresFlag(t) ==
    /\ pump[t].pc = "loop"
    /\ pump' = [pump EXCEPT ![t].pc = "wait"]
    /\ UNCHANGED << ctlVars, slotVars, libVars, bufs, hwFrame, nThreads, callerPc, cons,
                    obsVars >>
    /\ UNCHANGED cfgVars
    /\ UNCHANGED extVars

\* while self.running:
PumpLoop(t) ==
    /\ pump[t].pc = "loop"
    /\ pump' = [pump EXCEPT ![t].pc = IF running THEN "wait" ELSE "returned"]
    /\ UNCHANGED << ctlVars, slotVars, libVars, bufs, hwFrame, nThreads, callerPc, cons,
                    obsVars >>
    /\ UNCHANGED cfgVars
    /\ UNCHANGED extVars

\* buffer = self.m_dataStream.WaitForFinishedBuffer(100): a finished buffer
\* is handed over, or the wait times out, which the library reports by an
\* exception that runtime_frame does not catch
PumpWait(t) ==
    /\ pump[t].pc = "wait"
    /\ IF \E b \in Buffers : bufs[b].st = "finished"
       THEN /\ bufs' = [bufs EXCEPT ![OldestFinished].st = "held"]
            /\ pump' = [pump EXCEPT ![t] =
                          [pc |-> "check", buf |-> OldestFinished, exc |-> "none"]]
       ELSE /\ pump' = [pump EXCEPT ![t] =
                          [pc |-> "faulted", buf |-> 0, exc |-> "timeout"]]
            /\ UNCHANGED bufs
    /\ waitsAfterClear' = IF callerPc = "join" THEN waitsAfterClear + 1
                          ELSE waitsAfterClear
    /\ UNCHANGED << ctlVars, slotVars, libVars, hwFrame, nThreads, callerPc, cons,
                    hwStopped, stopIssued, consecutive, lastCall >>
    /\ UNCHANGED cfgVars
    /\ UNCHANGED extVars

\* a pump that goes on to publish without testing HasImage()
PumpCheck_NoTest(t) ==
    /\ pump[t].pc = "check"
    /\ pump' = [pump EXCEPT ![t].pc = "publish"]
    /\ UNCHANGED << ctlVars, slotVars, libVars, bufs, hwFrame, nThreads, callerPc, cons,
                    obsVars >>
    /\ UNCHANGED cfgVars
    /\ UNCHANGED extVars

\* if not buffer.HasImage(): raise Exception(...)
PumpCheck(t) ==
    /\ pump[t].pc = "check"
    /\ pump' = [pump EXCEPT ![t] =
                  IF bufs[pump[t].buf].img
                  THEN [pc |-> "publish", buf |-> pump[t].buf, exc |-> "none"]
                  ELSE [pc |-> "faulted", buf |-> pump[t].buf, exc |-> "noimage"]]
    /\ UNCHANGED << ctlVars, slotVars, libVars, bufs, hwFrame, nThreads, callerPc, cons,
                    obsVars >>
    /\ UNCHANGED cfgVars
    /\ UNCHANGED extVars

\* self.image = ipl.BufferToImage(buffer).get_numpy_2D()
PumpPublish(t) ==
    /\ pump[t].pc = "publish"
    /\ image' = [buf |-> pump[t].buf, seq |-> image.seq + 1,
                 data |-> bufs[pump[t].buf].data, snap |-> 0]
    /\ pump' = [pump EXCEPT ![t].pc = "flag"]
    /\ UNCHANGED << ctlVars, frame, frame_flag, colorMode, libVars, bufs, hwFrame,
                    nThreads, callerPc, cons, obsVars >>
    /\ UNCHANGED cfgVars
    /\ UNCHANGED extVars

\* self.frame_flag = True
PumpFlag(t) ==
    /\ pump[t].pc = "flag"
    /\ frame_flag' = TRUE
    /\ pump' = [pump EXCEPT ![t].pc = "queue"]
    /\ UNCHANGED << ctlVars, image, frame, colorMode, libVars, bufs, hwFrame,
                    nThreads, callerPc, cons, obsVars >>
    /\ UNCHANGED cfgVars
    /\ UNCHANGED extVars

\* an iteration that ends without QueueBuffer
PumpQueue_Skips(t) ==
    /\ pump[t].pc = "queue"
    /\ pump' = [pump EXCEPT ![t].pc = "loop"]
    /\ UNCHANGED << ctlVars, slotVars, libVars, bufs, hwFrame, nThreads, callerPc, cons,
                    obsVars >>
    /\ UNCHANGED cfgVars
    /\ UNCHANGED extVars

\* self.m_dataStream.QueueBuffer(buffer); self.print is False
PumpQueue(t) ==
    /\ pump[t].pc = "queue"
    /\ bufs' = [bufs EXCEPT ![pump[t].buf].st = "queued"]
    /\ pump' = [pump EXCEPT ![t] = [pc |-> "loop", buf |-> 0, exc |-> "none"]]
    /\ UNCHANGED << ctlVars, slotVars, libVars, hwFrame, nThreads, callerPc, cons,
                    obsVars >>
    /\ UNCHANGED cfgVars
    /\ UNCHANGED extVars

runtime_frame ==
    \E t \in Threads :
        \/ PumpLoop(t)
        \/ PumpWait(t)
        \/ PumpCheck(t)
        \/ PumpPublish(t)
        \/ PumpFlag(t)
        \/ PumpQueue(t)

\* ---------------------------------------------------------- the consumers
ColorModes == {"None", "BGR", "Mono8"}

\* what a consumer remembers of its previous call when it starts a new one
Called(c, op, pc) ==
    [cons[c] EXCEPT !.pc = pc, !.op = op,
                    !.prevW = (cons[c].op = "wait4frame" /\ cons[c].outcome = "frame"),
                    !.afterFault = \E t \in Threads : pump[t].pc = "faulted"]

\* get_image(colorMode): if colorMode is not None: self.colorMode = colorMode
Call_get_image(c, cm) ==
    /\ cons[c].pc = "idle"
    /\ colorMode' = IF cm = "None" THEN colorMode ELSE cm
    /\ cons' = [cons EXCEPT ![c] = Called(c, "get_image", "get")]
    /\ UNCHANGED << ctlVars, image, frame, frame_flag, libVars, bufs, hwFrame,
                    pump, nThreads, callerPc, obsVars >>
    /\ UNCHANGED cfgVars
    /\ UNCHANGED extVars

\* wait4frame(colorMode): if colorMode is not None: self.colorMode = colorMode
Call_wait4frame(c, cm) ==
    /\ cons[c].pc = "idle"
    /\ colorMode' = IF cm = "None" THEN colorMode ELSE cm
    /\ cons' = [cons EXCEPT ![c] = Called(c, "wait4frame", "poll")]
    /\ UNCHANGED << ctlVars, image, frame, frame_flag, libVars, bufs, hwFrame,
                    pump, nThreads, callerPc, obsVars >>
    /\ UNCHANGED cfgVars
    /\ UNCHANGED extVars

\* while not self.frame_flag: time.sleep(0.001)
W4F_Poll(c) ==
    /\ cons[c].pc = "poll"
    /\ frame_flag
    /\ cons' = [cons EXCEPT ![c].pc = "clear"]
    /\ UNCHANGED << ctlVars, slotVars, libVars, bufs, hwFrame, pump, nThreads,
                    callerPc, obsVars >>
    /\ UNCHANGED cfgVars
    /\ UNCHANGED extVars

\* self.frame_flag = False
W4F_Clear(c) ==
    /\ cons[c].pc = "clear"
    /\ frame_flag' = FALSE
    /\ cons' = [cons EXCEPT ![c].pc = "get"]
    /\ UNCHANGED << ctlVars, image, frame, colorMode, libVars, bufs, hwFrame,
                    pump, nThreads, callerPc, obsVars >>
    /\ UNCHANGED cfgVars
    /\ UNCHANGED extVars

\* the array cv2.cvtColor makes of the array img: the pixels are read from
\* the memory img is a view of
cvtColor(img) == [buf |-> 0, seq |-> img.seq, data |-> img.data, snap |-> Content(img)]

\* the body of get_image: Mono8 returns self.image itself; BGR reads
\* self.image and converts it (cvtColor of None raises)
Get_Read(c) ==
    /\ cons[c].pc = "get"
    /\ cons' = [cons EXCEPT ![c] =
         IF colorMode = "Mono8"
         THEN [@ EXCEPT !.pc = "idle", !.tmp = image, !.ret = image,
                        !.outcome = IF IsFrame(image) THEN "frame" ELSE "None"]
         ELSE IF IsFrame(image)
              THEN [@ EXCEPT !.pc = "store", !.tmp = cvtColor(image)]
              ELSE [@ EXCEPT !.pc = "idle", !.tmp = NoFrame, !.ret = NoFrame,
                             !.outcome = "error"]]
    /\ UNCHANGED << ctlVars, slotVars, libVars, bufs, hwFrame, pump, nThreads,
                    callerPc, obsVars >>
    /\ UNCHANGED cfgVars
    /\ UNCHANGED extVars

\* self.frame = <the converted array>
Get_Store(c) ==
    /\ cons[c].pc = "store"
    /\ frame' = cons[c].tmp
    /\ cons' = [cons EXCEPT ![c].pc = "ret"]
    /\ UNCHANGED << ctlVars, image, frame_flag, colorMode, libVars, bufs, hwFrame,
                    pump, nThreads, callerPc, obsVars >>
    /\ UNCHANGED cfgVars
    /\ UNCHANGED extVars

\* return self.frame
Get_Return(c) ==
    /\ cons[c].pc = "ret"
    /\ cons' = [cons EXCEPT ![c] = [@ EXCEPT !.pc = "idle", !.ret = frame,
                                              !.outcome = "frame"]]
    /\ UNCHANGED << ctlVars, slotVars, libVars, bufs, hwFrame, pump, nThreads,
                    callerPc, obsVars >>
    /\ UNCHANGED cfgVars
    /\ UNCHANGED extVars

get_image(c) ==
        \/ \E cm \in ColorModes : Call_get_image(c, cm)
        \/ Get_Read(c)
        \/ Get_Store(c)
        \/ Get_Return(c)

wait4frame(c) ==
        \/ \E cm \in ColorModes : Call_wait4frame(c, cm)
        \/ W4F_Poll(c)
        \/ W4F_Clear(c)

\* GainAuto / ExposureAuto = "Continuous": while it acquires, the device
\* itself sets Gain / ExposureTime to a value inside the limits
ExposureValues == {v \in {1000 * t : t \in TArgs} : ExpMin <= v /\ v <= ExpMax}

AutoAdjust ==
    /\ devAcq
    /\ \E g \in GainMin..GainMax, e \in ExposureValues :
          nodes' = [nodes EXCEPT
                      !.Gain = IF nodes.GainAuto = "Continuous" THEN g ELSE @,
                      !.ExposureTime = IF nodes.ExposureAuto = "Continuous" THEN e ELSE @]
    /\ UNCHANGED << ctlVars, slotVars, libVars, bufs, hwFrame, pump, nThreads, callerPc,
                    cons, obsVars, fps, settingsFile, call >>
    /\ UNCHANGED extVars

Device ==
    \E b \in Buffers :
        \/ HwBeginFill(b)
        \/ \E ok \in BOOLEAN : HwEndFill(b, ok)

\* The controller driven method by method, its pump thread and the device.
\* The consumers are left out: they write frame_flag, frame and colorMode
\* only, which neither the caller's methods, runtime_frame nor the device read.
Next ==
    \/ LibraryInitialize
    \/ open_camera
    \/ prepare_acquisition
    \/ \E rej \in 0..NumBuffers : alloc_and_announce_buffers(rej)
    \/ \E ok \in BOOLEAN : start_acquisition(ok)
    \/ stopcamera
    \/ runtime_frame
    \/ Device

Spec == Init /\ [][Next]_vars

\* The threads are scheduled: a pump thread that can take a step takes it
\* (every buffer wait returns a buffer or times out), and so does the caller
\* inside stopcamera.
FairSpec == Spec /\ WF_vars(runtime_frame) /\ WF_vars(Stop_Join \/ Stop_Halt)

\* The controller started by startcamera_auto and stopped by stopcamera, its
\* pump thread, the device, and a single consumer thread.
ReadNext ==
    \/ startcamera_auto
    \/ stopcamera
    \/ runtime_frame
    \/ get_image(1)
    \/ wait4frame(1)
    \/ Device

ReadSpec == Init /\ [][ReadNext]_vars

\* A streaming controller, its pump thread, the device, and several
\* consumer threads that call get_image concurrently.
SharedNext ==
    \/ startcamera_auto
    \/ runtime_frame
    \/ \E c \in Consumers : get_image(c)
    \/ Device

SharedSpec == Init /\ [][SharedNext]_vars

\* The configuration of a camera: a controller started by startcamera_auto
\* (TLParamsLocked = 1) or startcamera_load (TLParamsLocked = 0) and
\* configured method by method while it streams.  The pump
\* thread and the sensor's frames are left out: neither reads or writes a
\* node.
ConfigNext ==
    \/ startcamera_auto
    \/ startcamera_load
    \/ \E x \in XArgs, y \in YArgs, width \in WArgs, height \in HArgs :
           set_roi(x, y, width, height)
    \/ \E x \in XArgs : set_offset_x(x)
    \/ \E y \in YArgs : set_offset_y(y)
    \/ \E width \in WArgs : set_width(width)
    \/ \E height \in HArgs : set_height(height)
    \/ \E f \in FArgs : set_fps(f)
    \/ \E m \in Modes, g \in GArgs : set_Gain(m, g)
    \/ \E m \in Modes, t \in TArgs : set_Exposure(m, t)
    \/ AutoAdjust

ConfigSpec == Init /\ [][ConfigNext]_vars

\* Saving and reloading: a controller is started by startcamera_load,
\* configured while {ID}.json has not been written, saved by save_settings
\* and stopped; a new controller then starts by startcamera_load.  The sensor
\* delivers no frame, so the pump thread only tests the running flag and
\* waits.
LoadNext ==
    \/ CameraManager
    \/ startcamera_load
    \/ /\ ~settingsFile.present
       /\ \/ \E x \in XArgs : set_offset_x(x)
          \/ \E y \in YArgs : set_offset_y(y)
          \/ \E width \in WArgs : set_width(width)
          \/ \E height \in HArgs : set_height(height)
          \/ \E f \in FArgs : set_fps(f)
          \/ \E g \in GArgs : set_Gain("Off", g)
          \/ \E t \in TArgs : set_Exposure("Off", t)
          \/ save_settings
    \/ stopcamera
    \/ \E t \in Threads : PumpLoop(t) \/ PumpWait(t)
    \/ AutoAdjust

LoadSpec == Init /\ [][LoadNext]_vars

\* Allocation: the controller driven method by method with set_width
\* changing the payload size, its pump thread and the device; buffers are
\* allocated again before the start and after the pump thread has ended.
AllocNext ==
    \/ LibraryInitialize
    \/ open_camera
    \/ prepare_acquisition
    \/ \E width \in WArgs : set_width(width)
    \/ \E rej \in 0..NumBuffers : alloc_and_announce_buffers(rej)
    \/ \E ok \in BOOLEAN : start_acquisition(ok)
    \/ runtime_frame
    \/ Device

AllocSpec == Init /\ [][AllocNext]_vars

\* ------------------------------------------ several controllers, one library
\* The process of __main__: several CameraManager objects, the devices the
\* device manager enumerates, and the library they all share.  A controller
\* is seen here by its handles and its pump threads only; the device accepts
\* the default configuration of startcamera_auto.
\* the library can be used: Initialize has been called and not undone
LibraryOpen == Library.refs > 0

\* the handle self.m_device of controller c is that of a device it has open
Holds(c) ==
    /\ camera_managers[c].m_device # 0
    /\ c \in claimed[camera_managers[c].m_device]

\* peak.Library.Initialize(): calls are counted by a library that counts
\* them, and only open the library otherwise
Initialize(l) ==
    [l EXCEPT !.refs = IF l.counted THEN l.refs + 1 ELSE 1]

\* peak.Library.Close(): undoes one Initialize, or all of them
Close(l) ==
    [l EXCEPT !.refs = IF l.counted /\ l.refs > 0 THEN l.refs - 1 ELSE 0]

\* Devices()[i].IsOpenable() that is true of a device already opened
IsOpenable_Always(cl, d) ==
    TRUE

\* Devices()[i].IsOpenable(): nobody has the device open
IsOpenable(cl, d) ==
    cl[d] = {}

\* the test of the loop of open_camera on device d
Matches(id, d) == SerialNumber(d) = id \/ id = None

\* a loop that keeps the last device that passes the tests
FirstMatch_Last(id, cl) ==
    LET S == {d \in Devices : Matches(id, d) /\ IsOpenable(cl, d)}
    IN  IF S = {} THEN 0 ELSE CHOOSE d \in S : \A e \in S : e <= d

\* the device the loop of open_camera opens: the first one in the order of
\* Devices() that passes both tests, 0 when there is none
FirstMatch(id, cl) ==
    LET S == {d \in Devices : Matches(id, d) /\ IsOpenable(cl, d)}
    IN  IF S = {} THEN 0 ELSE CHOOSE d \in S : \A e \in S : d <= e

\* open_camera of controller c, on the managers m and the claims cl, with
\* the library open (lo) or not: a call on the closed library raises, which
\* the except clause turns into False
Do_open_camera(m, cl, lo, c) ==
    LET d == IF lo THEN FirstMatch(m[c].ID, cl) ELSE 0
    IN  IF d = 0
        THEN [m |-> m, cl |-> cl, ok |-> FALSE]
        ELSE [m |-> [m EXCEPT ![c].m_device = d, ![c].ID = SerialNumber(d)],
              cl |-> [cl EXCEPT ![d] = @ \cup {c}],
              ok |-> TRUE]

\* StartAcquisition is accepted: the stream is one of a device the
\* controller has open, and it is not acquiring already
CanStart(m, cl, lo, c) ==
    /\ lo
    /\ m[c].m_dataStream
    /\ m[c].m_device # 0
    /\ c \in cl[m[c].m_device]
    /\ ~m[c].acquiring

\* start_acquisition of controller c: StartAcquisition raises on no stream,
\* on a closed library and on a stream that is acquiring, and the call
\* returns False; otherwise the thread runtime_frame is created and started
Do_start_acquisition(m, cl, lo, c) ==
    IF CanStart(m, cl, lo, c)
    THEN [m |-> [m EXCEPT ![c].acquiring = TRUE,
                          ![c].running = TRUE,
                          ![c].started = @ + 1,
                          ![c].alive = @ \cup {m[c].started + 1}],
          ok |-> TRUE]
    ELSE [m |-> m, ok |-> FALSE]

\* prepare_acquisition after open_camera: a new data stream, not acquiring
Do_prepare_acquisition(m, c) ==
    [m EXCEPT ![c].m_dataStream = TRUE, ![c].acquiring = FALSE]

\* startcamera_auto of controller c after Library.Initialize(): False when
\* open_camera fails, otherwise the stream is prepared and started
Do_startcamera_auto(m, cl, c) ==
    LET o == Do_open_camera(m, cl, TRUE, c)
        s == Do_start_acquisition(Do_prepare_acquisition(o.m, c), o.cl, TRUE, c)
    IN  IF o.ok THEN [m |-> s.m, cl |-> o.cl, ok |-> s.ok]
        ELSE [m |-> m, cl |-> cl, ok |-> FALSE]

\* what a method of one of several controllers leaves alone
FleetFrame == UNCHANGED << singleVars, calVars, useVars >>

\* the threads a call may still create
MayStart(c) == camera_managers[c].started < MaxStarts

\* open_camera() of controller c
Fleet_open_camera(c) ==
    LET o == Do_open_camera(camera_managers, claimed, LibraryOpen, c)
    IN  /\ camera_managers' = o.m
        /\ claimed' = o.cl
        /\ ret' = [c |-> c, op |-> "open_camera", ok |-> o.ok]
        /\ UNCHANGED Library
        /\ FleetFrame

\* start_acquisition() of controller c
Fleet_start_acquisition(c) ==
    LET s == Do_start_acquisition(camera_managers, claimed, LibraryOpen, c)
    IN  /\ MayStart(c)
        /\ camera_managers' = s.m
        /\ ret' = [c |-> c, op |-> "start_acquisition", ok |-> s.ok]
        /\ UNCHANGED << Library, claimed >>
        /\ FleetFrame

\* startcamera_auto() of controller c
Fleet_startcamera_auto(c) ==
    LET a == Do_startcamera_auto(camera_managers, claimed, c)
    IN  /\ MayStart(c)
        /\ Library.refs < MaxInits
        /\ Library' = Initialize(Library)
        /\ camera_managers' = a.m
        /\ claimed' = a.cl
        /\ ret' = [c |-> c, op |-> "startcamera_auto", ok |-> a.ok]
        /\ FleetFrame

\* startcamera_load() of controller c: startcamera_auto, then False when the
\* file {ID}.json does not exist (hasFile), the camera left as it is
Fleet_startcamera_load(c, hasFile) ==
    LET a == Do_startcamera_auto(camera_managers, claimed, c)
    IN  /\ MayStart(c)
        /\ Library.refs < MaxInits
        /\ Library' = Initialize(Library)
        /\ camera_managers' = a.m
        /\ claimed' = a.cl
        /\ ret' = [c |-> c, op |-> "startcamera_load", ok |-> a.ok /\ hasFile]
        /\ FleetFrame

\* startcamera_manual() of controller c: startcamera_auto, startcamera_load
\* (from_manual) when the file exists, manual_settings left by "5"
Fleet_startcamera_manual(c) ==
    LET a == Do_startcamera_auto(camera_managers, claimed, c)
    IN  /\ MayStart(c)
        /\ Library.refs < MaxInits
        /\ Library' = Initialize(Library)
        /\ camera_managers' = a.m
        /\ claimed' = a.cl
        /\ ret' = [c |-> c, op |-> "startcamera_manual", ok |-> a.ok]
        /\ FleetFrame

\* stopcamera() of controller c: the flag is cleared and the thread of
\* self.acquisition_thread joined; the stop commands raise on handles the
\* library has released, and the call ends there; otherwise the stream is
\* stopped and Library.Close() called, which releases every device when it
\* closes the library
Fleet_stopcamera(c) ==
    LET me == camera_managers[c]
        joined == [me EXCEPT !.running = FALSE, !.alive = @ \ {me.started}]
        raises == me.m_device # 0 /\ ~(LibraryOpen /\ Holds(c))
        closed == Close(Library).refs = 0
    IN  /\ IF raises
           THEN /\ camera_managers' = [camera_managers EXCEPT ![c] = joined]
                /\ UNCHANGED << Library, claimed >>
           ELSE /\ camera_managers' =
                      [camera_managers EXCEPT ![c] = [joined EXCEPT !.acquiring = FALSE]]
                /\ Library' = Close(Library)
                /\ claimed' = IF closed THEN [d \in Devices |-> {}] ELSE claimed
        /\ ret' = [c |-> c, op |-> "stopcamera", ok |-> ~raises]
        /\ FleetFrame

\* the thread t of controller c ends: self.running is False at the test of
\* the loop, or a call of the loop raises (no buffer within the timeout,
\* handles of a closed library)
Fleet_runtime_frame(c, t) ==
    /\ t \in camera_managers[c].alive
    /\ camera_managers' = [camera_managers EXCEPT ![c].alive = @ \ {t}]
    /\ UNCHANGED << Library, claimed, ret >>
    /\ FleetFrame

\* The process of __main__ with several controllers, each driven method by
\* method, and their pump threads.
FleetNext ==
    \E c \in Controllers :
        \/ Fleet_open_camera(c)
        \/ Fleet_start_acquisition(c)
        \/ Fleet_startcamera_auto(c)
        \/ \E hasFile \in BOOLEAN : Fleet_startcamera_load(c, hasFile)
        \/ Fleet_startcamera_manual(c)
        \/ Fleet_stopcamera(c)
        \/ \E t \in PumpIds : Fleet_runtime_frame(c, t)

\* the controllers are made with any camera_id, and the library counts its
\* Initialize calls or does not
FleetInit ==
    /\ ControllerInit
    /\ CalibrationIdle
    /\ UseIdle
    /\ Library \in [counted : BOOLEAN, refs : {0}]
    /\ camera_managers \in [Controllers -> {NewManager(id) : id \in IDs}]
    /\ claimed = [d \in Devices |-> {}]
    /\ ret = NoRet

FleetSpec == FleetInit /\ [][FleetNext]_vars

\* ------------------------------------------------------ CameraProperties
\* Quantities of calibrate.  Reprojection errors are in tenths of a pixel.
BatchUnit == 30          \* num_batches = valid_images_count // 30
SubsetSize == 50         \* np.random.choice(imgpoints.shape[0], 50, replace=False)
num_tests == 50          \* validation trials
CornerCount == 18        \* corners of the default pattern (3, 6)
AcceptedError == 10      \* if mean_reprojection_error > 1

\* squareSize in tenths of a millimetre: the default 50.8, a float, and the
\* integers 1 and 2
FloatSquare == 508
SquareSizes == {FloatSquare, 10, 20}
IsInt(v) == v % 10 = 0

\* the numbers of valid images a capture window may end with
SampleCounts == {0, 1, 29, 30, 49, 50, 60}

\* the averaged camera matrices / distortion vectors a resampling may yield
Matrices == {1, 2}

\* A validation run: for each of the error values of the successful trials
\* the number of trials that produced it; the other trials, up to num_tests,
\* are those whose solvePnP returned success = False.
TrialRuns ==
    { [e \in {5, 10, 15} |-> 0],
      [e \in {5, 10, 15} |-> IF e = 10 THEN num_tests ELSE 0],
      [e \in {5, 10, 15} |-> IF e = 15 THEN 1 ELSE 0],
      [e \in {5, 10, 15} |-> IF e = 10 THEN 0 ELSE 25],
      [e \in {5, 10, 15} |-> IF e = 5 THEN 24 ELSE IF e = 15 THEN 26 ELSE 0] }

\* len(reprojection_errors) and sum(reprojection_errors) of a run
Trials(run) == run[5] + run[10] + run[15]
ErrorSum(run) == 5 * run[5] + 10 * run[10] + 15 * run[15]

\* np.mean(reprojection_errors) > 1 decided without rounding; the mean of
\* the empty list is nan, and nan > 1 is False
MeanAboveThreshold(run) ==
    IF Trials(run) = 0 THEN FALSE
    ELSE ErrorSum(run) > AcceptedError * Trials(run)

\* imgpoints.shape[0] after np.array(imgpoints).squeeze(): the array of a
\* single sample, of shape (1, 18, 1, 2), is squeezed to (18, 2)
PoolSize(n) == IF n = 1 THEN CornerCount ELSE n

\* the iterations of the resampling loop: range(4 * num_batches)
Iterations(n) == 4 * (n \div BatchUnit)

\* np.random.choice(pool, size, replace=False) raises ValueError when the
\* pool is smaller than the sample
ChoiceRaises(pool, size) == size > pool

\* The resampling loop on n valid images: the first draw raises when the
\* pool is too small, otherwise every iteration draws and solves.  raised
\* tells whether the loop ended by the exception.
Resampling(n) ==
    IF Iterations(n) > 0 /\ ChoiceRaises(PoolSize(n), SubsetSize)
    THEN [raised |-> TRUE, draws |-> 1, solves |-> 0]
    ELSE [raised |-> FALSE, draws |-> Iterations(n), solves |-> Iterations(n)]

\* np.mean(cmtxs, axis=0): nan for the empty list
MeanMatrix(n, k) == IF Iterations(n) = 0 THEN NaN ELSE k

\* a validation that reports no success for a camera matrix it cannot use
ValidationRaises_Tolerant(n, m) ==
    FALSE

\* The first validation trial raises: np.random.choice(0) on the empty
\* pool, the index error on the squeezed single sample, cv2.solvePnP on a
\* camera matrix that is not 3x3
ValidationRaises(n, m) ==
    \/ PoolSize(n) = 0
    \/ n = 1
    \/ m = NaN

\* save_calibration: the two keys are written into {ID}.json, the other
\* keys kept
WriteCalibration(f, m, d) ==
    [f EXCEPT !.exists = TRUE, !.CameraMatrix = m, !.DistortionCoefficients = d]

\* what calibrate leaves alone
CalibrateFrame ==
    /\ UNCHANGED << ctlVars, slotVars, libVars, bufs, hwFrame, pump, nThreads, callerPc,
                    cons, obsVars, nodes, fps, call >>
    /\ UNCHANGED << fleetVars, useVars, rvec, tvec, P, position >>

\* One execution of the body of calibrate: the outermost call (pc "idle")
\* or the call self.calibrate() of a retry (pc "retry").  The capture
\* window ends with n valid images; k is the matrix the resampling averages
\* to, run the validation.  An exception ends the whole invocation.
Calibrate_Attempt(n, k, run) ==
    LET first == calib.pc = "idle"
        depth == IF first THEN 0 ELSE calib.depth
        saves == IF first THEN 0 ELSE calib.saves
        r == Resampling(n)
        m == MeanMatrix(n, k)
        sq == IF squareSize = None THEN FloatSquare ELSE squareSize
        end(o, dr, so, sv) ==
            calib' = [pc |-> IF o = "rejected" THEN "prompt" ELSE "idle",
                      depth |-> depth, n |-> n, draws |-> dr, solves |-> so,
                      outcome |-> o, saves |-> sv]
    IN  /\ calib.pc \in {"idle", "retry"}
        /\ callerPc = "idle"
        /\ CalibrateFrame
        /\ IF image = NoFrame
           THEN \* cv2.flip(None, 1) raises in the capture window
                /\ end("raised", 0, 0, saves)
                /\ squareSize' = sq
                /\ UNCHANGED << cmtx, dist, jsonFile, settingsFile >>
           ELSE IF r.raised
           THEN /\ end("raised", r.draws, r.solves, saves)
                /\ squareSize' = sq
                /\ UNCHANGED << cmtx, dist, jsonFile, settingsFile >>
           ELSE /\ cmtx' = m
                /\ dist' = m
                /\ squareSize' = sq
                /\ IF ValidationRaises(n, m)
                   THEN /\ end("raised", r.draws, r.solves, saves)
                        /\ UNCHANGED << jsonFile, settingsFile >>
                   ELSE IF MeanAboveThreshold(run)
                   THEN /\ end("rejected", r.draws, r.solves, saves)
                        /\ UNCHANGED << jsonFile, settingsFile >>
                   ELSE \* save_calibration, which ends with save_settings
                        /\ jsonFile' = WriteCalibration(jsonFile, m, m)
                        /\ IF NodeMapUsable
                           THEN /\ settingsFile' = Settings(nodes)
                                /\ end("saved", r.draws, r.solves, saves + 1)
                           ELSE /\ end("raised", r.draws, r.solves, saves + 1)
                                /\ UNCHANGED settingsFile

\* key.upper()
Upper(key) == IF key = "y" THEN "Y" ELSE IF key = "n" THEN "N" ELSE key

\* key = input("Do you want to try again? (y/n): "): self.calibrate() for an
\* answer of y or Y, the end of the invocation for any other
Calibrate_Answer(key) ==
    /\ calib.pc = "prompt"
    /\ IF Upper(key) = "Y"
       THEN /\ calib.depth < MaxRestarts
            /\ calib' = [calib EXCEPT !.pc = "retry", !.depth = @ + 1]
       ELSE calib' = [calib EXCEPT !.pc = "idle"]
    /\ CalibrateFrame
    /\ UNCHANGED << cmtx, dist, squareSize, jsonFile, settingsFile >>

calibrate ==
    \/ \E n \in SampleCounts, k \in Matrices, run \in TrialRuns :
           Calibrate_Attempt(n, k, run)
    \/ \E key \in {"y", "Y", "n", ""} : Calibrate_Answer(key)

\* load_calibration on the file f with cm and di resident: False for a
\* missing file and for a missing key; the KeyError of
\* "DistortionCoefficients" comes after self.cmtx has been assigned
Do_load_calibration_AlwaysTrue(f, cm, di) ==
    [cmtx |-> cm, dist |-> di, ok |-> TRUE]

Do_load_calibration(f, cm, di) ==
    IF ~f.exists \/ f.CameraMatrix = None
    THEN [cmtx |-> cm, dist |-> di, ok |-> FALSE]
    ELSE IF f.DistortionCoefficients = None
    THEN [cmtx |-> f.CameraMatrix, dist |-> di, ok |-> FALSE]
    ELSE [cmtx |-> f.CameraMatrix, dist |-> f.DistortionCoefficients, ok |-> TRUE]

\* load_wr on the file f with rv, tv and pm resident: False for a missing
\* file and for a missing key; the three assignments are made in turn, so
\* the KeyError of a key comes after the keys before it have been assigned
Do_load_wr(f, rv, tv, pm) ==
    IF ~f.exists \/ f.RotationVector = None
    THEN [rvec |-> rv, tvec |-> tv, P |-> pm, ok |-> FALSE]
    ELSE IF f.TranslationVector = None
    THEN [rvec |-> f.RotationVector, tvec |-> tv, P |-> pm, ok |-> FALSE]
    ELSE IF f.ProjectionMatrix = None
    THEN [rvec |-> f.RotationVector, tvec |-> f.TranslationVector, P |-> pm,
          ok |-> FALSE]
    ELSE [rvec |-> f.RotationVector, tvec |-> f.TranslationVector,
          P |-> f.ProjectionMatrix, ok |-> TRUE]

\* what load_calibration and load_wr leave alone
LoadFrame ==
    /\ UNCHANGED << ctlVars, slotVars, libVars, bufs, hwFrame, pump, nThreads, callerPc,
                    cons, obsVars, cfgVars >>
    /\ UNCHANGED << fleetVars, useVars, squareSize, jsonFile, calib, position >>

\* load_calibration() called on its own
load_calibration ==
    LET l == Do_load_calibration(jsonFile, cmtx, dist)
    IN  /\ calib.pc = "idle"
        /\ callerPc = "idle"
        /\ cmtx' = l.cmtx
        /\ dist' = l.dist
        /\ UNCHANGED << rvec, tvec, P >>
        /\ LoadFrame

\* load_wr() called on its own
load_wr ==
    LET l == Do_load_wr(jsonFile, rvec, tvec, P)
    IN  /\ calib.pc = "idle"
        /\ callerPc = "idle"
        /\ rvec' = l.rvec
        /\ tvec' = l.tvec
        /\ P' = l.P
        /\ UNCHANGED << cmtx, dist >>
        /\ LoadFrame

\* The arguments of get_camera_position.  image_wr: no path, a path
\* cv2.imread reads, one it does not.  offset_xyz: None, the list
\* [1, 2.5, 0], another list of three.
Paths == {"None", "readable", "unreadable"}
Offsets == {"None", "default", "other"}
\* self.last_good_reference: never assigned, None, a frame
References == {"unset", "None", "frame"}

\* len([1, (patternSize[1] - 1) / 2, 0] * s): a list is repeated by an
\* integer; the product with a float raises TypeError (length None)
ListTimes(s) == IF IsInt(s) THEN 3 * (s \div 10) ELSE None

\* The statements of get_camera_position between the calibration and the
\* image: len(offset_xyz) for self.squareSize = s, the parameter squareSize
\* = sqp and the argument offs, None when one of the products raises
OffsetLength(s, sqp, offs) ==
    LET first == IF offs = "None" THEN ListTimes(s) ELSE 3
        same == IF offs = "None" THEN s = sqp
                ELSE offs = "default" /\ sqp = 10
    IN  IF first = None \/ ListTimes(sqp) = None THEN None
        ELSE IF same /\ s # 10 THEN ListTimes(s)
        ELSE first

\* the image get_camera_position works on: "raised" for the attribute that
\* was never assigned, "False" for the returns of lines 1033-1035 and
\* 1041-1043, "image" otherwise
ReferenceImage(path, ref, png) ==
    IF path = "None"
    THEN IF ref = "unset" THEN "raised"
         ELSE IF ref = "None" THEN (IF png THEN "image" ELSE "False")
         ELSE "image"
    ELSE IF path = "readable" THEN "image" ELSE "False"

\* what get_camera_position leaves alone
PositionFrame ==
    /\ UNCHANGED << ctlVars, slotVars, libVars, bufs, hwFrame, pump, nThreads, callerPc,
                    cons, obsVars, cfgVars >>
    /\ UNCHANGED << fleetVars, useVars, calib, jsonFile, P >>

\* get_camera_position(image_wr = path, squareSize = sqp, offset_xyz =
\* offs) with self.last_good_reference = ref, the file {ID}.png present or
\* not (png), an image in which findChessboardCorners finds the pattern or
\* not (pattern), and a solvePnP that returns or raises (solved).  After
\* the pattern is found the call ends by the AttributeError of
\* cameraMATRIX.T, before self.P and save_wr.
get_camera_position(path, sqp, offs, ref, png, pattern, solved) ==
    LET l == IF cmtx = None \/ dist = None
             THEN Do_load_calibration(jsonFile, cmtx, dist)
             ELSE [cmtx |-> cmtx, dist |-> dist, ok |-> TRUE]
        s == IF squareSize = None THEN sqp ELSE squareSize
        len == OffsetLength(s, sqp, offs)
        img == ReferenceImage(path, ref, png)
        end(r, d) == position' = [ret |-> r, detection |-> d]
    IN  /\ calib.pc = "idle"
        /\ callerPc = "idle"
        /\ PositionFrame
        /\ cmtx' = l.cmtx
        /\ dist' = l.dist
        /\ IF ~l.ok
           THEN end("False", FALSE) /\ UNCHANGED << squareSize, rvec, tvec >>
           ELSE /\ squareSize' = s
                /\ IF len = None \/ img = "raised"
                   THEN end("raised", FALSE) /\ UNCHANGED << rvec, tvec >>
                   ELSE IF img = "False"
                   THEN end("False", FALSE) /\ UNCHANGED << rvec, tvec >>
                   ELSE IF len # 3
                   THEN \* cRW += offset_xyz cannot be broadcast
                        end("raised", FALSE) /\ UNCHANGED << rvec, tvec >>
                   ELSE IF ~pattern
                   THEN end("False", TRUE) /\ UNCHANGED << rvec, tvec >>
                   ELSE /\ end("raised", TRUE)
                        /\ IF solved
                           THEN \E v \in Matrices : rvec' = v /\ tvec' = v
                           ELSE UNCHANGED << rvec, tvec >>

\* the files {ID}.json a CameraProperties may find: none, one with the
\* settings only, one with the camera matrix only, one with a calibration,
\* one with a calibration and a pose
JsonFiles ==
    { NoJson,
      [NoJson EXCEPT !.exists = TRUE],
      [NoJson EXCEPT !.exists = TRUE, !.CameraMatrix = 1],
      [NoJson EXCEPT !.exists = TRUE, !.CameraMatrix = 1, !.DistortionCoefficients = 1],
      [exists |-> TRUE, CameraMatrix |-> 1, DistortionCoefficients |-> 1,
       RotationVector |-> 1, TranslationVector |-> 1, ProjectionMatrix |-> 1] }

\* CameraProperties.__init__ for a controller whose file is f: the file is
\* looked up under the ID of that moment, so it is found (found) or, for a
\* controller made without a serial number, not
CalibrationInit ==
    \E f \in JsonFiles, found \in BOOLEAN :
        LET g == IF found THEN f ELSE NoJson
        IN  /\ jsonFile = f
            /\ cmtx = Do_load_calibration(g, None, None).cmtx
            /\ dist = Do_load_calibration(g, None, None).dist
            /\ rvec = Do_load_wr(g, None, None, None).rvec
            /\ tvec = Do_load_wr(g, None, None, None).tvec
            /\ P = Do_load_wr(g, None, None, None).P
            /\ squareSize = None
            /\ calib = NoCalib
            /\ position = NoPosition

CalInit == ControllerInit /\ FleetIdle /\ CalibrationInit /\ UseIdle

\* A camera started by startcamera_auto and run until its pump has
\* published a first frame; calibrate is called from then on.  The frames
\* after the first are left out: the outcome of calibrate is given by the
\* number of valid images and the validation errors, which are inputs here.
CalNext ==
    \/ /\ image = NoFrame
       /\ \/ startcamera_auto
          \/ runtime_frame
          \/ Device
    \/ /\ image # NoFrame
       /\ calibrate

CalSpec == CalInit /\ [][CalNext]_vars

\* get_camera_position, load_calibration and load_wr on a controller that
\* is not started, before and after a calibrate that ends in its capture
\* window for lack of a frame.
PoseNext ==
    \/ \E n \in SampleCounts, k \in Matrices, run \in TrialRuns :
           Calibrate_Attempt(n, k, run)
    \/ \E path \in Paths, sqp \in SquareSizes, offs \in Offsets, ref \in References,
          png \in BOOLEAN, pattern \in BOOLEAN, solved \in BOOLEAN :
           get_camera_position(path, sqp, offs, ref, png, pattern, solved)
    \/ load_calibration
    \/ load_wr

PoseSpec == CalInit /\ [][PoseNext]_vars

\* the return values of the seven set_ calls of startcamera_load, in the
\* order of the code, each on the device state the calls before it left
LoadResults(n, lk, sf, s) ==
    LET r1 == Do_set_size(n, lk, "Width", s.Width)
        r2 == Do_set_size(r1.n, lk, "Height", s.Height)
        r3 == Do_set_offset(r2.n, lk, "OffsetX", s.OffsetX)
        r4 == Do_set_offset(r3.n, lk, "OffsetY", s.OffsetY)
        r5 == Do_set_fps(r4.n, sf, s.FPS)
        r6 == Do_set_Gain(r5.n, "Off", s.Gain)
        r7 == Do_set_Exposure(r6.n, "Off", s.Exposure)
    IN  << r1.ok, r2.ok, r3.ok, r4.ok, r5.ok, r6.ok, r7.ok >>

\* ------------------------------------------- settings files found on disk
\* {ID}.json as startcamera_load may find it: written by an earlier run, for
\* another region of interest, or edited by hand.  The values are inside
\* and outside the limits of the device.
StoredFiles ==
    { [present |-> TRUE, OffsetX |-> x, OffsetY |-> 0, Width |-> w, Height |-> SensorH,
       FPS |-> f, Gain |-> g, Exposure |-> 1] :
          x \in {0, 1}, w \in {SensorW - 1, SensorW, SensorW + 1},
          f \in {FpsMax, FpsMax + 2}, g \in {GainMax, GainMax + 1} }

\* the file is put in place while no method of the controller runs
StoreFile(s) ==
    /\ callerPc = "idle"
    /\ settingsFile' = s
    /\ UNCHANGED << ctlVars, slotVars, libVars, bufs, hwFrame, pump, nThreads, callerPc,
                    cons, obsVars, nodes, fps, call >>
    /\ UNCHANGED extVars

\* Controllers started by startcamera_load on such files and stopped; the
\* sensor delivers no frame.
StoredNext ==
    \/ CameraManager
    \/ startcamera_load
    \/ \E s \in StoredFiles : StoreFile(s)
    \/ stopcamera
    \/ \E t \in Threads : PumpLoop(t) \/ PumpWait(t)

StoredSpec == Init /\ [][StoredNext]_vars

\* --------------------------------------------- the capture window of calibrate
\* The loop of lines 802-827 seen from the image slot: each iteration reads
\* self.camera.image and, inside the window, appends a copy of it to frames.
\* The loop does not wait for the pump thread: cv2.waitKey(1) is all that
\* separates two iterations.
MaxCaptured == 3

CaptureFrame == UNCHANGED << singleVars, fleetVars, calVars, recorder, trial >>

\* calibrate is called before the pump thread has published an image:
\* cv2.flip(None, 1) raises in the first iteration
Capture_Raise ==
    /\ callerPc = "idle"
    /\ capture.pc \in {"idle", "closed"}
    /\ ~IsFrame(image)
    /\ capture' = [pc |-> "raised", frames |-> << >>, since |-> 0]
    /\ CaptureFrame

\* frames = []; the iterations that show the image; Space; the countdown
\* has passed (tempo <= 30)
Capture_Open ==
    /\ callerPc = "idle"
    /\ capture.pc \in {"idle", "closed"}
    /\ IsFrame(image)
    /\ capture' = [pc |-> "window", frames |-> << >>, since |-> image.seq]
    /\ CaptureFrame

\* one iteration inside the window: img = self.camera.image;
\* frames.append(img.copy())
Capture_Iteration ==
    /\ capture.pc = "window"
    /\ Len(capture.frames) < MaxCaptured
    /\ capture' = [capture EXCEPT !.frames = Append(@, image.seq)]
    /\ CaptureFrame

\* tempo < 0: the loop ends
Capture_Close ==
    /\ capture.pc = "window"
    /\ capture' = [capture EXCEPT !.pc = "closed"]
    /\ CaptureFrame

\* A camera started by startcamera_auto, its pump thread, the device, and
\* calibrate in its capture loop.
CaptureNext ==
    \/ startcamera_auto
    \/ runtime_frame
    \/ Device
    \/ Capture_Raise
    \/ Capture_Open
    \/ Capture_Iteration
    \/ Capture_Close

CaptureSpec == Init /\ [][CaptureNext]_vars

\* ------------------------------------------ a validation trial of calibrate
\* the number of indices np.random.choice(18, 9, replace=False) draws
SelectedCount == 9

\* pattern sizes (rows, cols) calibrate may be called with
PatternSizes == { << 3, 6 >>, << 6, 3 >>, << 2, 9 >>, << 4, 6 >>, << 3, 4 >>, << 3, 3 >> }

\* results of np.random.choice(18, 9, replace=False): nine consecutive
\* indices from any start, the even and the odd ones
Selections ==
    { { (i + j) % CornerCount : j \in 0..(SelectedCount - 1) } : i \in 0..(CornerCount - 1) }
        \cup { { i \in 0..(CornerCount - 1) : i % 2 = 0 },
               { i \in 0..(CornerCount - 1) : i % 2 = 1 } }

\* remaining_indices = [i for i in range(18) if i not in selected_indices]
Remaining(p, sel) ==
    { i \in 0..(CornerCount - 1) : i \notin sel }

\* One trial on a sample of the pattern p = (rows, cols), whose arrays A and
\* B have rows * cols rows: A[selected_indices], B[selected_indices],
\* A[remaining_indices], B[remaining_indices] raise IndexError for an index
\* that is not a row.
Validation_Trial(p, sel) ==
    /\ callerPc = "idle"
    /\ trial' = [patternSize |-> p, selected |-> sel, remaining |-> Remaining(p, sel),
                 raised |-> \E i \in sel \cup Remaining(p, sel) : i >= p[1] * p[2]]
    /\ UNCHANGED << singleVars, fleetVars, calVars, capture, recorder >>

TrialNext ==
    \E p \in PatternSizes, sel \in Selections : Validation_Trial(p, sel)

TrialSpec == Init /\ [][TrialNext]_vars

\* ------------------------------------------------------- the VideoRecorder
\* frames the sensor delivers in a run with the recorder: create takes two
\* (it calls wait4frame twice), record the rest
MaxRecorded == 3

\* the sensor starts writing a frame into a queued buffer
Rec_BeginFill(b) ==
    /\ devAcq /\ dsAcq
    /\ hwFrame < MaxRecorded
    /\ bufs[b].st = "queued"
    /\ \A o \in Buffers : bufs[o].st # "filling"
    /\ bufs' = [bufs EXCEPT ![b] = [@ EXCEPT !.st = "filling", !.data = Torn, !.img = TRUE]]
    /\ UNCHANGED << ctlVars, slotVars, libVars, hwFrame, pump, nThreads, callerPc, cons,
                    obsVars >>
    /\ UNCHANGED cfgVars
    /\ UNCHANGED extVars

\* the device of the run with the recorder: every frame it delivers is complete
Rec_Device ==
    \E b \in Buffers :
        \/ Rec_BeginFill(b)
        \/ HwEndFill(b, TRUE)

\* what the recorder's methods leave alone: they touch the controller
\* through wait4frame only
RecFrame ==
    UNCHANGED << ctlVars, image, colorMode, libVars, bufs, hwFrame, pump, nThreads,
                 callerPc, cons, obsVars, cfgVars, fleetVars, calVars, capture, trial >>

\* the two callers of wait4frame: create on the calling thread, record on its own
Callers == {"main", "thread"}

\* wait4frame called by who: while not self.frame_flag: time.sleep(0.001)
Rec_W4F_Poll(who) ==
    /\ recorder.w4f[who] = "poll"
    /\ frame_flag
    /\ recorder' = [recorder EXCEPT !.w4f[who] = "clear"]
    /\ UNCHANGED << frame, frame_flag >>
    /\ RecFrame

\* self.frame_flag = False
Rec_W4F_Clear(who) ==
    /\ recorder.w4f[who] = "clear"
    /\ frame_flag' = FALSE
    /\ recorder' = [recorder EXCEPT !.w4f[who] = "get"]
    /\ UNCHANGED frame
    /\ RecFrame

\* return self.get_image(): BGR stores the converted image in self.frame
Rec_W4F_Get(who) ==
    /\ recorder.w4f[who] = "get"
    /\ frame' = IF colorMode = "Mono8" THEN frame ELSE cvtColor(image)
    /\ recorder' = [recorder EXCEPT !.w4f[who] = "done"]
    /\ UNCHANGED frame_flag
    /\ RecFrame

\* create up to the first wait4frame call of the frame size
Rec_create_Call ==
    /\ callerPc = "idle"
    /\ recorder.main = "idle"
    /\ ~recorder.video
    /\ recorder' = [recorder EXCEPT !.main = "create1", !.w4f.main = "poll"]
    /\ UNCHANGED << frame, frame_flag >>
    /\ RecFrame

\* the second wait4frame call of the frame size
Rec_create_Second ==
    /\ recorder.main = "create1"
    /\ recorder.w4f.main = "done"
    /\ recorder' = [recorder EXCEPT !.main = "create2", !.w4f.main = "poll"]
    /\ UNCHANGED << frame, frame_flag >>
    /\ RecFrame

\* self.video = cv2.VideoWriter(...); return True
Rec_create_Return ==
    /\ recorder.main = "create2"
    /\ recorder.w4f.main = "done"
    /\ recorder' = [recorder EXCEPT !.main = "idle", !.w4f.main = "none", !.video = TRUE]
    /\ UNCHANGED << frame, frame_flag >>
    /\ RecFrame

\* start() and start(10)
Durations == {None, 10}

\* start(duration): self.duration is set when duration is not None; return
\* False when there is no writer; else the thread of record is started
Rec_start(duration) ==
    /\ callerPc = "idle"
    /\ recorder.main = "idle"
    /\ recorder.thread = "none"
    /\ recorder' =
         IF recorder.video
         THEN [recorder EXCEPT !.duration = IF duration # None THEN duration ELSE @,
                               !.stop_record = FALSE, !.thread = "top",
                               !.live = running]
         ELSE [recorder EXCEPT !.duration = IF duration # None THEN duration ELSE @]
    /\ recorder' # recorder
    /\ UNCHANGED << frame, frame_flag >>
    /\ RecFrame

\* record: while not self.stop_record: ... self.camera.wait4frame()
Rec_Loop ==
    /\ recorder.thread = "top"
    /\ recorder' = IF recorder.stop_record
                   THEN [recorder EXCEPT !.thread = "release"]
                   ELSE [recorder EXCEPT !.thread = "wait", !.w4f.thread = "poll"]
    /\ UNCHANGED << frame, frame_flag >>
    /\ RecFrame

\* self.video.write(<the frame wait4frame returned>); counter += 1
Rec_Write ==
    /\ recorder.thread = "wait"
    /\ recorder.w4f.thread = "done"
    /\ recorder' = [recorder EXCEPT !.thread = "time", !.w4f.thread = "none",
                                    !.written = @ + 1]
    /\ UNCHANGED << frame, frame_flag >>
    /\ RecFrame

\* if time.time() - start_time >= self.duration: break
\* (a float compared with None raises TypeError: the thread ends there)
Rec_Time ==
    /\ recorder.thread = "time"
    /\ recorder' = [recorder EXCEPT !.thread =
                      IF recorder.duration = None THEN "raised"
                      ELSE IF recorder.elapsed THEN "release" ELSE "top"]
    /\ UNCHANGED << frame, frame_flag >>
    /\ RecFrame

\* self.video.release(); return True
Rec_Release ==
    /\ recorder.thread = "release"
    /\ recorder' = [recorder EXCEPT !.thread = "ended", !.released = TRUE]
    /\ UNCHANGED << frame, frame_flag >>
    /\ RecFrame

\* the duration passes while the thread of record exists
Rec_Tick ==
    /\ recorder.thread \notin {"none", "ended", "raised"}
    /\ recorder.duration # None
    /\ ~recorder.elapsed
    /\ recorder' = [recorder EXCEPT !.elapsed = TRUE]
    /\ UNCHANGED << frame, frame_flag >>
    /\ RecFrame

\* stop: self.stop_record = True; the join when there is a thread
Rec_stop_Set ==
    /\ callerPc = "idle"
    /\ recorder.main = "idle"
    /\ ~recorder.stop_record
    /\ recorder' = [recorder EXCEPT !.stop_record = TRUE,
                                    !.main = IF recorder.thread = "none" THEN "idle"
                                                                         ELSE "join"]
    /\ UNCHANGED << frame, frame_flag >>
    /\ RecFrame

\* self.Thread_video_record.join() returns when the thread has ended
Rec_stop_Join ==
    /\ recorder.main = "join"
    /\ recorder.thread \in {"ended", "raised"}
    /\ recorder' = [recorder EXCEPT !.main = "idle"]
    /\ UNCHANGED << frame, frame_flag >>
    /\ RecFrame

record ==
    \/ Rec_Loop
    \/ Rec_W4F_Poll("thread")
    \/ Rec_W4F_Clear("thread")
    \/ Rec_W4F_Get("thread")
    \/ Rec_Write
    \/ Rec_Time
    \/ Rec_Release

create ==
    \/ Rec_create_Call
    \/ Rec_W4F_Poll("main")
    \/ Rec_W4F_Clear("main")
    \/ Rec_W4F_Get("main")
    \/ Rec_create_Second
    \/ Rec_create_Return

\* stopcamera called by the thread that calls the recorder's methods
Rec_stopcamera ==
    \/ recorder.main = "idle" /\ Stop_Clear
    \/ Stop_Join
    \/ Stop_Halt

\* startcamera_auto called by the thread that calls the recorder's methods
Rec_startcamera ==
    /\ recorder.main = "idle"
    /\ startcamera_auto

\* One thread starts the camera, creates and starts the recorder, and calls
\* stop and stopcamera in any order; the pump thread, the device and the
\* thread of record run beside it.
RecNext ==
    \/ Rec_startcamera
    \/ Rec_stopcamera
    \/ runtime_frame
    \/ Rec_Device
    \/ create
    \/ \E duration \in Durations : Rec_start(duration)
    \/ record
    \/ Rec_Tick
    \/ Rec_stop_Set
    \/ Rec_stop_Join

\* The threads are scheduled and time passes: the pump thread, the thread of
\* record, the device and a caller inside stopcamera, create or stop's join
\* take the steps they can take.
RecSpec ==
    /\ Init
    /\ [][RecNext]_vars
    /\ WF_vars(runtime_frame)
    /\ WF_vars(Rec_Device)
    /\ WF_vars(Stop_Join \/ Stop_Halt)
    /\ WF_vars(record)
    /\ WF_vars(create)
    /\ WF_vars(Rec_Tick)
    /\ WF_vars(Rec_stop_Join)

\* ------------------------------------------------------------- properties
\* a consumer's call returns in this step
Returns(c) == cons[c].pc # "idle" /\ cons'[c].pc = "idle"

\* C1: a frame handed to a consumer keeps the pixel content it was
\* published with for as long as the consumer holds it; it is never backed
\* by memory the device may refill.
C1_FramePixelsStable ==
    \A c \in Consumers :
        (cons[c].pc = "idle" /\ cons[c].outcome = "frame")
            => Content(cons[c].ret) = cons[c].ret.data

\* C2: of two consecutive wait4frame calls of a single consumer, the second
\* returns a frame published strictly later than the one the first returned.
C2_Wait4FrameReturnsNewFrame ==
    [][\A c \in Consumers :
         (Returns(c) /\ cons[c].op = "wait4frame" /\ cons[c].prevW
                     /\ cons'[c].outcome = "frame")
             => cons'[c].ret.seq > cons[c].ret.seq]_vars

\* C3: the publication numbers of the frames one consumer receives never
\* decrease, and no call returns a frame older than the one that was the
\* latest published when the call read the slot.
C3_ObservedNonDecreasingLatest ==
    [][\A c \in Consumers :
         (Returns(c) /\ cons'[c].outcome = "frame")
             => /\ IsFrame(cons[c].ret) => cons'[c].ret.seq >= cons[c].ret.seq
                /\ cons'[c].ret.seq >= cons'[c].tmp.seq]_vars

\* C4 as claimed: whenever the pump is at the loop test, blocked in the wait
\* or has exited (normally or by an exception), it holds no buffer.
C4_BufferRequeuedEveryIteration ==
    \A t \in Threads :
        pump[t].pc \in {"loop", "wait", "returned", "faulted"} => pump[t].buf = 0

HeldBuffers == {b \in Buffers : bufs[b].st = "held"}

\* C4 amended: a buffer with an image is requeued before the next loop test,
\* the next wait and the normal exit; the pump holds at most one buffer and
\* none while it waits; only the buffer without an image that faulted the
\* pump is still held when the thread has exited.
C4_ValidBufferRequeued ==
    /\ \A t \in Threads :
          /\ pump[t].pc \in {"none", "loop", "wait", "returned"} => pump[t].buf = 0
          /\ (pump[t].pc = "faulted" /\ pump[t].buf # 0) => pump[t].exc = "noimage"
          /\ pump[t].pc \in {"publish", "flag", "queue"} =>
                 (pump[t].buf # 0 /\ bufs[pump[t].buf].st = "held")
    /\ Cardinality(HeldBuffers) <= Cardinality({t \in Threads : pump[t].buf # 0})

\* C4 witness: a published buffer is back in the queue and the pump is at
\* its loop test while another buffer is already finished.
C4_Witness ==
    \E t \in Threads :
        /\ pump[t].pc = "loop"
        /\ IsFrame(image)
        /\ bufs[image.buf].st = "queued"
        /\ \E b \in Buffers : bufs[b].st = "finished"

\* C5: a buffer wait that ends without a buffer sends the pump back to the
\* test of the running flag.
C5_TimeoutLoops ==
    [][\A t \in Threads :
         (pump[t].pc = "wait" /\ pump'[t].pc # "wait" /\ pump'[t].buf = 0)
             => pump'[t].pc = "loop"]_vars

\* C6: a buffer without an image ends the pump thread at once: the step that
\* tests it publishes nothing, and a faulted thread takes no further step.
C6_NoImageFaultsPump ==
    [][\A t \in Threads :
         /\ (pump[t].pc = "check" /\ ~bufs[pump[t].buf].img /\ pump'[t] # pump[t])
               => (pump'[t].pc = "faulted" /\ image' = image /\ frame_flag' = frame_flag
                   /\ bufs'[pump[t].buf].st = "held")
         /\ pump[t].pc = "faulted" => pump'[t] = pump[t]]_vars

\* C6 witness: a pump thread has faulted on a buffer without an image.
C6_Witness ==
    \E t \in Threads : pump[t].pc = "faulted" /\ pump[t].exc = "noimage"

\* C7: a consumer call that began after the pump had faulted reports the
\* fault.
C7_FaultObservable ==
    \A c \in Consumers :
        (cons[c].pc = "idle" /\ cons[c].afterFault) => cons[c].outcome = "faulted"

\* C8: the hardware stop command is issued by stopcamera after the running
\* flag is cleared and the pump thread has terminated, and the pump neither
\* completes a buffer wait nor queues a buffer once the stop is issued.
C8_StopOrder ==
    [][/\ (hwStopped' /\ ~hwStopped) =>
              (callerPc = "halt" /\ ~running /\ \A t \in Threads : ~Alive(t))
       /\ (callerPc = "join" /\ callerPc' = "halt") => ~running
       /\ \A t \in Threads :
              (pump'[t] # pump[t] /\ pump[t].pc \in {"wait", "queue"})
                  => (~hwStopped /\ devAcq)]_vars

\* C8 witness: stopcamera has issued the stop after a pump thread that
\* published a frame has returned.
C8_Witness ==
    /\ hwStopped
    /\ callerPc = "idle"
    /\ acquisition_thread # 0
    /\ pump[acquisition_thread].pc = "returned"
    /\ IsFrame(image)

\* C9: after stopcamera cleared the running flag the pump completes at most
\* one more buffer wait and is dead when the join returns, and stopcamera,
\* once it has cleared the flag, returns.
C9_PromptCancellation ==
    /\ [](waitsAfterClear <= 1)
    /\ [](callerPc = "halt" => \A t \in Threads : ~Alive(t))
    /\ (callerPc = "join") ~> (callerPc = "idle")

\* C9 witness: stopcamera has returned after the pump completed one buffer
\* wait that followed the clearing of the flag.
C9_Witness ==
    /\ callerPc = "idle"
    /\ lastCall = "stopcamera"
    /\ waitsAfterClear = 1
    /\ pump[acquisition_thread].pc = "returned"

\* C10: a stopcamera call that directly follows another one on an opened
\* controller issues no hardware stop command and no library close.
C10_SecondStopIssuesNothing ==
    (consecutive /\ m_device /\ callerPc = "idle")
        => (stopIssued.hw = 0 /\ stopIssued.close = 0)

\* C11: when a stopcamera that directly follows a start_acquisition returns,
\* the pump thread has terminated, no buffer of the data stream is in the
\* Queued state, and the device session is closed
C11_StopAfterStartLeavesNothing ==
    [][(callerPc = "halt" /\ callerPc' = "idle" /\ lastCall = "start_acquisition")
         => /\ \A t \in Threads :
                  pump'[t].pc \notin {"loop", "wait", "check", "publish", "flag", "queue"}
            /\ \A b \in Buffers : bufs'[b].st # "queued"
            /\ ~devOpen']_vars

\* C12: a start_acquisition whose AcquisitionStart command the hardware
\* rejects leaves running false, launches no pump thread, and leaves the
\* acquisition state of the data stream and TLParamsLocked as they were
C12_RejectedStartChangesNothing ==
    [][start_acquisition(FALSE)
         => /\ ~running' /\ running' = running
            /\ pump' = pump /\ nThreads' = nThreads
            /\ dsAcq' = dsAcq
            /\ tlLocked' = tlLocked]_vars

\* C13: while the controller streams and was not started in manual mode
\* (Msetting false, TLParamsLocked = 1), every call of set_roi,
\* set_offset_x, set_offset_y, set_width, set_height, set_fps, set_Gain and
\* set_Exposure returns False and changes no device parameter
C13_LockedStreamingRejectsChanges ==
    [][(Streaming /\ ~Msetting /\ Locked)
         => /\ \A x \in XArgs, y \in YArgs, width \in WArgs, height \in HArgs :
                  set_roi(x, y, width, height)
                      => (~Ret_set_roi(x, y, width, height).ok /\ nodes' = nodes)
            /\ \A x \in XArgs :
                  set_offset_x(x) => (~Ret_set_offset("OffsetX", x).ok /\ nodes' = nodes)
            /\ \A y \in YArgs :
                  set_offset_y(y) => (~Ret_set_offset("OffsetY", y).ok /\ nodes' = nodes)
            /\ \A width \in WArgs :
                  set_width(width) => (~Ret_set_size("Width", width).ok /\ nodes' = nodes)
            /\ \A height \in HArgs :
                  set_height(height)
                      => (~Ret_set_size("Height", height).ok /\ nodes' = nodes)
            /\ \A f \in FArgs :
                  set_fps(f) => (~Ret_set_fps(f).ok /\ nodes' = nodes)
            /\ \A m \in Modes, g \in GArgs :
                  set_Gain(m, g) => (~Ret_set_Gain(m, g).ok /\ nodes' = nodes)
            /\ \A m \in Modes, t \in TArgs :
                  set_Exposure(m, t) => (~Ret_set_Exposure(m, t).ok /\ nodes' = nodes)]_vars

\* C14: in every state in which the controller streams, also during and
\* after startcamera_load, the size of every announced buffer is the payload
\* size of the current Width and Height
C14_BuffersMatchPayload ==
    Streaming => \A b \in Buffers : bufs[b].st # "none" => bufs[b].size = PayloadSize(nodes)

\* C15: after alloc_and_announce_buffers has returned True, the announced
\* buffers are exactly the NumBuffersAnnouncedMinRequired newly allocated
\* ones, each of the current payload size and queued, and none of the buffers
\* announced before remains; a call in which the transport layer rejects an
\* announcement returns False
C15_AllocReplacesPool ==
    [][\A rej \in 0..NumBuffers :
          alloc_and_announce_buffers(rej)
              => /\ call'.ok
                      => \A b \in Buffers :
                             bufs'[b] = [st |-> "queued", data |-> 0, img |-> TRUE,
                                         size |-> PayloadSize(nodes')]
                 /\ (libOpen /\ dsValid /\ rej # 0) => ~call'.ok]_vars

\* an allocation has returned True on a data stream whose earlier buffers
\* had received frames, and the payload size is not the full sensor's
C15_Witness ==
    /\ call = [op |-> "alloc_and_announce_buffers", ok |-> TRUE]
    /\ hwFrame > 0
    /\ PayloadSize(nodes) < SensorW * SensorH
    /\ \A b \in Buffers : bufs[b].st = "queued" /\ bufs[b].size = PayloadSize(nodes)

\* C16: every set_roi(x, y, width, height) whose region is out of range (an
\* offset outside its bounds, a size below its minimum, x + width or
\* y + height above the maximum) returns False and leaves OffsetX, OffsetY,
\* Width and Height at the values they had before the call
C16_RejectedRoiKeepsValues ==
    [][\A x \in XArgs, y \in YArgs, width \in WArgs, height \in HArgs :
          (/\ set_roi(x, y, width, height)
           /\ NodeMapUsable
           /\ width # None /\ height # None
           /\ ~RoiInRange(x, y, width, height))
              => /\ ~Ret_set_roi(x, y, width, height).ok
                 /\ Roi(nodes') = Roi(nodes)]_vars

\* C17: every set_Exposure("Off", t) with t outside the [min, max] the device
\* reports for ExposureTime returns False and does not write ExposureTime
C17_ExposureOutOfRangeRejected ==
    [][\A t \in TArgs :
          (/\ set_Exposure("Off", t)
           /\ NodeMapUsable
           /\ (t < NodeMin(nodes, "ExposureTime") \/ t > NodeMax(nodes, "ExposureTime")))
              => /\ ~Ret_set_Exposure("Off", t).ok
                 /\ nodes'.ExposureTime = nodes.ExposureTime]_vars

\* C18: a setter that returns False because its argument fails validation
\* has no side effect: set_Gain("Off", g) leaves GainAuto and Gain as they
\* were, set_fps(f) leaves AcquisitionFrameRate, ExposureAuto and self.fps as
\* they were, and set_offset_x, set_offset_y, set_width and set_height leave
\* their node as it was
C18_FailedSetterNoSideEffect ==
    [][/\ \A g \in GArgs :
             (set_Gain("Off", g) /\ NodeMapUsable /\ ~Ret_set_Gain("Off", g).ok)
                 => (nodes'.GainAuto = nodes.GainAuto /\ nodes'.Gain = nodes.Gain)
       /\ \A f \in FArgs :
             (set_fps(f) /\ NodeMapUsable /\ ~Ret_set_fps(f).ok)
                 => /\ nodes'.AcquisitionFrameRate = nodes.AcquisitionFrameRate
                    /\ nodes'.ExposureAuto = nodes.ExposureAuto
                    /\ fps' = fps
       /\ \A x \in XArgs :
             (set_offset_x(x) /\ ~Ret_set_offset("OffsetX", x).ok)
                 => nodes'.OffsetX = nodes.OffsetX
       /\ \A y \in YArgs :
             (set_offset_y(y) /\ ~Ret_set_offset("OffsetY", y).ok)
                 => nodes'.OffsetY = nodes.OffsetY
       /\ \A width \in WArgs :
             (set_width(width) /\ ~Ret_set_size("Width", width).ok)
                 => nodes'.Width = nodes.Width
       /\ \A height \in HArgs :
             (set_height(height) /\ ~Ret_set_size("Height", height).ok)
                 => nodes'.Height = nodes.Height]_vars

\* C19: after a set_roi(x, y, width, height) that returned True the device
\* reports OffsetX = x, OffsetY = y, Width = width and Height = height, a
\* missing width or height being the maximum and a given one being used;
\* after set_fps(f) it reports AcquisitionFrameRate = f, after
\* set_Gain("Off", g) Gain = g; and the same call made a second time leaves
\* the device state as it is
C19_SettersRoundTrip ==
    [][/\ \A x \in XArgs, y \in YArgs, width \in WArgs, height \in HArgs :
             (set_roi(x, y, width, height) /\ Ret_set_roi(x, y, width, height).ok)
                 => /\ Roi(nodes') = << x, y,
                                        IF width = None THEN SensorW ELSE width,
                                        IF height = None THEN SensorH ELSE height >>
                    /\ Do_set_roi(nodes', Locked, x, y, width, height).n = nodes'
       /\ \A f \in FArgs \ {None} :
             (set_fps(f) /\ Ret_set_fps(f).ok)
                 => /\ nodes'.AcquisitionFrameRate = f
                    /\ Do_set_fps(nodes', fps', f).n = nodes'
       /\ \A g \in GArgs :
             (set_Gain("Off", g) /\ Ret_set_Gain("Off", g).ok)
                 => /\ nodes'.Gain = g
                    /\ Do_set_Gain(nodes', "Off", g).n = nodes']_vars

\* C20: when startcamera_load applies the file save_settings wrote, the
\* device ends with the saved OffsetX, OffsetY, Width, Height, frame rate,
\* gain and exposure time; the values are applied in the order width,
\* height, offset x, offset y, frame rate, gain, exposure
C20_SaveLoadRoundTrip ==
    [][(Load_Apply /\ settingsFile.present) => Settings(nodes') = settingsFile]_vars

\* a new controller has loaded a saved configuration that differs in every
\* value from the one startcamera_auto sets
C20_Witness ==
    /\ call = [op |-> "startcamera_load", ok |-> TRUE]
    /\ callerPc = "idle"
    /\ Streaming
    /\ Settings(nodes) = settingsFile
    /\ settingsFile.OffsetX > 0 /\ settingsFile.OffsetY > 0
    /\ settingsFile.Width < SensorW /\ settingsFile.Height < SensorH
    /\ settingsFile.FPS > FpsMax
    /\ settingsFile.Gain > GainMin
    /\ settingsFile.Exposure = 600

\* C21: open_camera selects the device whose serial number is the
\* controller's ID, or the first available device when the ID is None; it
\* returns True exactly when such a device exists and is openable, and then
\* the controller has that device open and its ID is the device's serial
\* number; a call that fails claims nothing: no device changes hands, and a
\* controller that had no device open has none.
C21_OpenSelectsMatchingDevice ==
    [][\A c \in Controllers : Fleet_open_camera(c) =>
         LET id == camera_managers[c].ID
             S == {d \in Devices : /\ LibraryOpen
                                   /\ id = None \/ SerialNumber(d) = id
                                   /\ claimed[d] = {}}
         IN  /\ ret'.ok <=> S # {}
             /\ ret'.ok =>
                  \E d \in S :
                      /\ \A e \in S : d <= e
                      /\ camera_managers'[c].m_device = d
                      /\ camera_managers'[c].ID = SerialNumber(d)
                      /\ claimed'[d] = {c}
                      /\ \A e \in Devices \ {d} : claimed'[e] = claimed[e]
             /\ ~ret'.ok =>
                  /\ claimed' = claimed
                  /\ camera_managers'[c] = camera_managers[c]
                  /\ ~Holds(c) => \A d \in Devices : c \notin claimed'[d]
    ]_vars

\* open_camera has opened the second device for a controller, the first
\* one being open already
C21_Witness ==
    /\ ret.op = "open_camera"
    /\ ret.ok
    /\ camera_managers[ret.c].m_device = 2
    /\ claimed[2] = {ret.c}
    /\ claimed[1] # {}

\* C22: no two controllers have the same device open, whatever open_camera
\* and startcamera_ calls were made on the controllers, those made without
\* a serial number included.
C22_DeviceHeldByOneController ==
    \A d \in Devices : Cardinality(claimed[d]) <= 1

\* two controllers have a device open each
C22_Witness ==
    \E c1, c2 \in Controllers :
        /\ c1 # c2
        /\ Holds(c1)
        /\ Holds(c2)
        /\ ret.op \in {"startcamera_auto", "startcamera_load", "startcamera_manual"}

\* C23: the library is closed only when the last controller stops: while
\* it is closed, no controller has a running pump thread or an open device.
C23_LibraryClosedByLastController ==
    ~LibraryOpen =>
        \A c \in Controllers : camera_managers[c].alive = {} /\ ~Holds(c)

\* C24: at most one runtime_frame thread of a controller is alive.
C24_OnePumpPerController ==
    \A c \in Controllers : Cardinality(camera_managers[c].alive) <= 1

C26_DrawsNeedFullPool ==
    [][\A n \in SampleCounts, k \in Matrices, run \in TrialRuns :
         (image # NoFrame /\ Calibrate_Attempt(n, k, run)) =>
             /\ calib'.solves > 0 => PoolSize(n) >= SubsetSize
             /\ (BatchUnit <= n /\ n < SubsetSize) =>
                    calib'.outcome = "raised" /\ calib'.draws = 0
    ]_vars

\* C27: an attempt persists the calibration exactly when the validation
\* produced a mean reprojection error of at most 1.0 pixel; every other
\* attempt that runs to its end persists nothing and asks for a retry.
C27_PersistIffValidated ==
    [][\A n \in SampleCounts, k \in Matrices, run \in TrialRuns :
         (Calibrate_Attempt(n, k, run) /\ calib'.outcome # "raised") =>
             LET validated == /\ Trials(run) > 0
                              /\ ErrorSum(run) <= AcceptedError * Trials(run)
             IN  /\ validated <=> jsonFile' = WriteCalibration(jsonFile, cmtx', dist')
                                    /\ calib'.outcome = "saved"
                 /\ ~validated => /\ jsonFile' = jsonFile
                                  /\ calib'.pc = "prompt"
    ]_vars

\* C28: the restarts of one calibrate invocation are bounded by a constant
\* of the program: they stop before the nesting the model allows.
C28_RetriesBounded ==
    calib.depth < MaxRestarts

C30_NoPatternReturnsFalse ==
    [][\A path \in Paths, sqp \in SquareSizes, offs \in Offsets, ref \in References,
          png \in BOOLEAN, solved \in BOOLEAN :
         ( /\ cmtx # None /\ dist # None
           /\ ReferenceImage(path, ref, png) = "image"
           /\ get_camera_position(path, sqp, offs, ref, png, FALSE, solved) ) =>
             /\ position'.ret = "False"
             /\ rvec' = rvec /\ tvec' = tvec /\ P' = P
             /\ jsonFile' = jsonFile
    ]_vars

\* C31: get_camera_position with a resident calibration and a reference
\* image in which the pattern is found, for the default offset and for an
\* explicit one, returns True, sets rvec, tvec and P and persists the three
\* of them in {ID}.json.
C31_PatternFoundSucceeds ==
    [][\A path \in Paths, sqp \in SquareSizes, offs \in Offsets, ref \in References,
          png \in BOOLEAN, solved \in BOOLEAN :
         ( /\ cmtx # None /\ dist # None
           /\ ReferenceImage(path, ref, png) = "image"
           /\ get_camera_position(path, sqp, offs, ref, png, TRUE, solved) ) =>
             /\ position'.ret = "True"
             /\ rvec' # None /\ tvec' # None /\ P' # None
             /\ jsonFile'.RotationVector = rvec'
             /\ jsonFile'.TranslationVector = tvec'
             /\ jsonFile'.ProjectionMatrix = P'
    ]_vars

\* C36: a startcamera_load or startcamera_manual that returns False on a
\* controller that was stopped leaves it with no runtime_frame thread, no
\* started acquisition and no device open.
C36_FailedStartLeavesNothing ==
    [][\A c \in Controllers :
         ( /\ camera_managers[c].alive = {}
           /\ ~camera_managers[c].acquiring
           /\ camera_managers[c].m_device = 0
           /\ \/ \E hasFile \in BOOLEAN : Fleet_startcamera_load(c, hasFile)
              \/ Fleet_startcamera_manual(c)
           /\ ~ret'.ok ) =>
             /\ camera_managers'[c].alive = {}
             /\ ~camera_managers'[c].running
             /\ ~camera_managers'[c].acquiring
             /\ camera_managers'[c].m_device = 0
             /\ \A d \in Devices : c \notin claimed'[d]
    ]_vars

\* C37: startcamera_load returns True only if each of set_width, set_height,
\* set_offset_x, set_offset_y, set_fps, set_Gain and set_Exposure returned
\* True for the value of the settings file.
C37_LoadTrueOnlyIfAllApplied ==
    [][(Load_Apply /\ call'.ok) =>
           \A i \in 1..7 : LoadResults(nodes, Locked, fps, settingsFile)[i]
    ]_vars

\* C35: an execution of the body of calibrate that does not end with
\* save_calibration (rejected by the validation, or ended by an exception
\* for lack of samples) leaves self.cmtx and self.dist as they were.
C35_RejectedAttemptKeepsCalibration ==
    [][\A n \in SampleCounts :
         calib'.n = n =>
             \/ /\ cmtx' = cmtx
                /\ dist' = dist
             \/ ~ \E k \in Matrices, run \in TrialRuns :
                    /\ Calibrate_Attempt(n, k, run)
                    /\ calib'.outcome \in {"rejected", "raised"}
                    /\ jsonFile' = jsonFile
    ]_vars

\* the publication numbers of the images in the list frames
Retained == { capture.frames[i] : i \in 1..Len(capture.frames) }

\* C33: inside the capture window of calibrate no image is appended to
\* frames twice, and no image the pump thread published inside the window
\* is replaced by the next one before it has been appended.
C33_EveryFrameRetainedOnce ==
    [][/\ Capture_Iteration => image.seq \notin Retained
       /\ ( /\ capture.pc = "window"
            /\ Len(capture.frames) < MaxCaptured
            /\ image.seq > capture.since
            /\ image'.seq # image.seq ) => image.seq \in Retained
    ]_vars

\* C34: in a validation trial, for every pattern size (rows, cols), the
\* training indices and the held-out indices are disjoint, each is half of
\* the rows * cols corners, and together they are exactly 0..rows*cols-1.
C34_TrialSplitsAllCorners ==
    trial # NoTrial =>
        LET corners == trial.patternSize[1] * trial.patternSize[2]
        IN  /\ ~trial.raised
            /\ trial.selected \cap trial.remaining = {}
            /\ 2 * Cardinality(trial.selected) = corners
            /\ 2 * Cardinality(trial.remaining) = corners
            /\ trial.selected \cup trial.remaining = 0..(corners - 1)

\* C32: a load_calibration or load_wr that returns False, for a missing file
\* or a missing key, leaves cmtx, dist, rvec, tvec and P as they were: no
\* part of the record is loaded.
C32_FailedLoadChangesNothing ==
    [][/\ (load_calibration /\ ~Do_load_calibration(jsonFile, cmtx, dist).ok) =>
              cmtx' = cmtx /\ dist' = dist
       /\ (load_wr /\ ~Do_load_wr(jsonFile, rvec, tvec, P).ok) =>
              rvec' = rvec /\ tvec' = tvec /\ P' = P
    ]_vars

\* the thread of record is inside record and has not returned
Recording == recorder.thread \in {"top", "wait", "time", "release"}

\* the run of the model cannot tell: the sensor has delivered all the frames
\* of the run, or the pump thread has ended by an exception of its own
RunExhausted ==
    \/ hwFrame = MaxRecorded
    \/ \E t \in Threads : pump[t].pc = "faulted"

\* C38: a recording started with a duration on a running camera ends: once the duration has
\* elapsed or stop has been requested, the thread of record releases the
\* video writer and terminates, also after stopcamera has ended the pump
\* thread, and a caller joining the thread inside stop returns.
C38_RecordingEnds ==
    /\ (/\ Recording /\ recorder.live /\ recorder.duration # None
        /\ (recorder.elapsed \/ recorder.stop_record))
          ~> (recorder.released \/ RunExhausted)
    /\ (recorder.main = "join" /\ recorder.live /\ recorder.duration # None)
          ~> (recorder.main = "idle" \/ RunExhausted)

====
